---- MODULE Spec2Model ----
(***************************************************************************)
(* Verification model of the earthmc-scraper ingestion pipeline.           *)
(*                                                                         *)
(*   internal/api      Client.doWithRetry, Client.batchPost                *)
(*   internal/scraper  HighFreq (activity loop), LowFreq (snapshot loop)   *)
(*   cmd/worker        main: one shared cancellable context, two loops     *)
(*                                                                         *)
(*   internal/db       the tables, create_activity_partitions              *)
(*                                                                         *)
(* The specifications share the variables:                                 *)
(*   SpecClient   one fetch call (a GET, or a batched detail POST) against *)
(*                a server that answers each request arbitrarily           *)
(*   Spec         the two Run loops as main wires them, with their tickers *)
(*   SpecGate     Spec plus a second goroutine per loop calling tick()     *)
(*                directly, the situation the TryLock gate is there for    *)
(*   SpecActivity the first tick of the activity loop over every online    *)
(*                list and position feed of the bounded sizes              *)
(*   SpecSnapshot one snapshot tick, every sub-scrape failing or not at    *)
(*                each of its fetches and store calls                      *)
(*   SpecDetails  one snapshot tick, one sub-scrape at a time getting      *)
(*                through, over every bounded list of detail records       *)
(*   SpecBoth     both loops running, writing the same player              *)
(*   SpecTimed    one tick of either loop while the clock advances         *)
(*   SpecPartitions  the activity loop with the clock advancing to where   *)
(*                the partitions end                                       *)
(*   SpecProvision   SpecPartitions with ticks that only provision         *)
(*   SpecShutdown both loops and main's wait for the first of errCh and    *)
(*                ctx.Done()                                               *)
(*   SpecStartup  main from config.Load to the launch of the goroutines,   *)
(*                then the first ticks                                     *)
(*   SpecCrowd    the activity loop with online lists as long as a chunk   *)
(*                of the snapshot loop, and longer                         *)
(*   SpecChunks   one snapshot tick with detail records for several chunks *)
(*   SpecIdentity SpecDetails with detail records that lack a uuid or name *)
(***************************************************************************)
EXTENDS Integers, Sequences, FiniteSets, TLC

(***************************************************************************)
(* Program constants.                                                      *)
(***************************************************************************)
\* const batchSize = 100
batchSize == 100
\* for attempt := 0; attempt < 3; attempt++
maxAttempts == 3
\* time.Since(h.lastPartitionCheck) < 30*time.Minute
coolDownMinutes == 30
\* const chunkSize = 500
chunkSize == 500
\* SELECT create_activity_partitions(NOW(), 48)
aheadHours == 48
\* INTERVAL '1 hour', the clock being in minutes
hourMinutes == 60

(***************************************************************************)
(* Bounds of the model.                                                    *)
(***************************************************************************)
\* longest id list handed to batchPost
MaxIds == 250
\* ticks a loop admits
MaxTicks == 2
\* the clock stops here
MaxNow == 30
\* longest online list, longest position feed
MaxOnline == 2
MaxMap == 2
\* longest list of detail records a sub-scrape receives
MaxDetails == 3
\* the clock's last hour in the specification that follows the partitions
MaxHours == 49
\* the most migration files main is started with
MaxMigrations == 2
\* the longest online list: one more than a chunk of the snapshot loop holds
MaxCrowd == 501
\* the most chunks the detail records of a sub-scrape fill
MaxChunks == 3

VARIABLES
    ctxDone,      \* main's ctx: TRUE once cancel() ran (ctx.Done() is closed)
    \* ---- Client.doWithRetry: the call in progress
    rpc,          \* "idle" | "do" (c.http.Do in flight) | "backoff" (select) | "done"
    attempt,      \* the loop variable attempt
    lastErr,      \* the local lastErr
    reqBody,      \* the body parameter (NoBody for a GET)
    ret,          \* the error returned (Nil when none)
    out,          \* what json.Unmarshal stored through out
    requests,     \* history: c.http.Do calls made by this doWithRetry call
    outcomes,     \* history: the answer to each of them (kind, status, well-formed)
    lastReply,    \* history: the last answer received
    waited,       \* history: seconds of backoff completed by this call
    \* ---- Client.batchPost / a plain GET: the operation in progress
    op,           \* "get" | "batch"
    uuids,        \* batchPost's uuids parameter
    bi,           \* batchPost's loop variable i
    allResults,   \* batchPost's allResults
    bpc,          \* "start" | "call" (inside doPost) | "done"
    bret,         \* [results, err] returned by the operation
    sent,         \* history: body handed to every doWithRetry call, in order
    httpTotal,    \* history: c.http.Do calls made by the operation
    clean,        \* history: every answer received so far was a success
    replies,      \* history: decoded result of every successful doPost, in order
    calls,        \* history: doPost calls made by batchPost
    \* ---- main and the health server
    proc,         \* main: [pc: where it is, files: the migration files embedded,
                  \* applied: history, the files Migrate has executed, in order]
    lastTick,     \* health.Server: the fields highFreqLastTick and lowFreqLastTick
    \* ---- time and the store
    now,          \* the wall clock, in minutes
    activity,     \* table player_activity: the rows inserted, in order
    players,      \* table players: the set of its rows (uuid is the key)
    partitions,   \* the partitions of player_activity (pg_class), in creation order
    lastProvision, \* history: the last create_activity_partitions call of
                  \* ensurePartitions: when it returned, and whether it succeeded
    snap,         \* per snapshot table (server_snapshots, town_snapshots, ...): its rows
    dim,          \* tables towns and nations: the set of their rows (uuid is the key)
    \* ---- the two loops (HighFreq is "high", LowFreq is "low")
    run,          \* per loop: where its Run goroutine is ("off": not running yet)
    tickerC,      \* per loop: ticker.C, a channel holding at most one firing
    running,      \* per loop: the mutex `running` is locked
    tpc,          \* per loop and caller of tick(): where that call is
    nticks,       \* per loop: ticks admitted so far
    did,          \* history, per loop and caller: what the current or last
                  \* call of tick() did ("provision", "fetch", "write")
    \* ---- HighFreq
    lastPartitionCheck,  \* the field lastPartitionCheck
    snapshotTS,   \* tick's snapshotTS
    onl,          \* the goroutine calling GetOnline: [pc, err, players]
    mp,           \* the goroutine calling GetMapPlayers: [pc, err, players]
    rows,         \* tick's rows
    \* ---- LowFreq
    lfTS,         \* tick's snapshotTS
    sub,          \* per sub-scrape goroutine: where it is, or how it ended
    det,          \* per sub-scrape: the detail records it fetched
    gCancelled    \* the errgroup has cancelled gCtx (a g.Go function returned an
                  \* error, or g.Wait() returned)

clientVars == <<rpc, attempt, lastErr, reqBody, ret, out, requests, outcomes,
                lastReply, waited, op, uuids, bi, allResults, bpc, bret, sent,
                httpTotal, clean, replies, calls>>

storeVars == <<activity, players, partitions, lastProvision, snap, dim>>

loopVars == <<run, tickerC, running, tpc, nticks, did>>

hfVars == <<lastPartitionCheck, snapshotTS, onl, mp, rows>>

lfVars == <<lfTS, sub, det, gCancelled>>

mainVars == <<proc, lastTick>>

scraperVars == <<mainVars, now, storeVars, loopVars, hfVars, lfVars>>

vars == <<ctxDone, clientVars, scraperVars>>

(***************************************************************************)
(* Values.                                                                 *)
(***************************************************************************)
Nil == [kind |-> "nil"]
NoBody == [tag |-> "nobody"]
NoValue == [tag |-> "novalue"]
\* a response body json.Unmarshal rejects
Garbage == [tag |-> "garbage"]

\* HTTP status codes the server may answer with
Statuses == {200, 400, 499, 500}

\* bodies a GET endpoint may answer with: two well-formed documents, one malformed
GetBodies == {[tag |-> "doc", v |-> 1], [tag |-> "doc", v |-> 2], Garbage}

Min(a, b) == IF a < b THEN a ELSE b

\* the full record the server holds for an id
Detail(id) == 0 - id

\* bodies the detail endpoint may answer a POST of PostQuery{Query: ids} with: one record per id,
\* the same with the last record missing, or a malformed document
PostBodies(ids) ==
    { [tag |-> "list", items |-> [j \in 1..Len(ids.ids) |-> Detail(ids.ids[j])]],
      [tag |-> "list", items |-> [j \in 1..(Len(ids.ids) - 1) |-> Detail(ids.ids[j])]],
      Garbage }

\* What c.http.Do and io.ReadAll can produce for one request.
Answers(body) ==
    {[kind |-> "neterr", status |-> 0, body |-> NoValue]}
    \cup {[kind |-> "readerr", status |-> 0, body |-> NoValue]}
    \cup {[kind |-> "resp", status |-> s, body |-> b] :
            s \in Statuses, b \in IF body = NoBody THEN GetBodies ELSE PostBodies(body)}

\* Once ctx is done the transport fails the request: Do (or the body read)
\* returns the context's error.
AnswersUnder(done, body) ==
    IF done THEN {a \in Answers(body) : a.kind = "neterr"} ELSE Answers(body)

\* json.Unmarshal(respBody, out): the decoded value, or failure
UnmarshalOk(body) == body # Garbage
Unmarshal(body) == body

(***************************************************************************)
(* Client.doWithRetry                                                      *)
(***************************************************************************)
\* time.Duration(1<<uint(attempt-1)) * time.Second, in seconds
RECURSIVE Pow2(_)
Pow2(n) == IF n <= 0 THEN 1 ELSE 2 * Pow2(n - 1)
\* mutant of Backoff: every wait lasts one second
BackoffConstant(a) == 1

Backoff(a) == Pow2(a - 1)

\* mutant of IsServerError: the 5xx test written as a test for any error status
IsServerErrorFrom400(status) == status >= 400

\* resp.StatusCode >= 500
IsServerError(status) == status >= 500
\* resp.StatusCode >= 400 (tested after the 5xx test)
IsClientError(status) == status >= 400

\* what the history keeps of an answer: how it ended, its status code, and
\* whether its body is a well-formed document
Observed(a) ==
    [kind |-> a.kind, status |-> a.status,
     wellFormed |-> (a.kind = "resp" /\ a.body # Garbage)]

\* the call enters doWithRetry: attempt = 0 goes straight to the request
doWithRetryEnter(body) ==
    /\ rpc' = "do"
    /\ attempt' = 0
    /\ lastErr' = Nil
    /\ reqBody' = body
    /\ ret' = Nil
    /\ out' = NoValue
    /\ requests' = 1
    /\ outcomes' = <<>>
    /\ lastReply' = NoValue
    /\ waited' = 0
    /\ sent' = Append(sent, body)
    /\ httpTotal' = httpTotal + 1

\* mutant of doWithRetryContinue: the loop keeps retrying without a bound
doWithRetryContinueUnbounded(err) ==
    /\ lastErr' = err
    /\ attempt' = attempt + 1
    /\ out' = out
    /\ rpc' = "backoff"
    /\ ret' = ret

\* `continue` after a retryable failure: attempt++, then either the select of
\* the next iteration or, the loop being over, the final error
doWithRetryContinue(err) ==
    /\ lastErr' = err
    /\ attempt' = attempt + 1
    /\ out' = out
    /\ IF attempt + 1 < maxAttempts
       THEN /\ rpc' = "backoff"
            /\ ret' = ret
       ELSE /\ rpc' = "done"
            /\ ret' = [kind |-> "exhausted", cause |-> err]

doWithRetryReturn(err, value) ==
    /\ rpc' = "done"
    /\ ret' = err
    /\ out' = value
    /\ UNCHANGED <<attempt, lastErr>>

\* lines 79-104: the answer to the request in flight
doWithRetryAnswer(a) ==
    /\ rpc = "do"
    /\ a \in AnswersUnder(ctxDone, reqBody)
    /\ outcomes' = Append(outcomes, Observed(a))
    /\ lastReply' = a
    /\ clean' = (clean /\ Observed(a).wellFormed /\ a.status < 400)
    /\ CASE a.kind = "neterr" ->
              doWithRetryContinue([kind |-> "do request", status |-> 0])
         [] a.kind = "readerr" ->
              doWithRetryContinue([kind |-> "read body", status |-> 0])
         [] a.kind = "resp" /\ IsServerError(a.status) ->
              doWithRetryContinue([kind |-> "server error", status |-> a.status])
         [] a.kind = "resp" /\ ~IsServerError(a.status) /\ IsClientError(a.status) ->
              doWithRetryReturn([kind |-> "client error", status |-> a.status], out)
         [] OTHER ->
              IF UnmarshalOk(a.body)
              THEN doWithRetryReturn(Nil, Unmarshal(a.body))
              ELSE doWithRetryReturn([kind |-> "unmarshal"], out)
    /\ UNCHANGED scraperVars
    /\ UNCHANGED <<ctxDone, reqBody, requests, waited, op, uuids, bi, allResults,
                   bpc, bret, sent, httpTotal, replies, calls>>

\* mutant of doWithRetryBackoffElapsed: the timer case is taken although the
\* context is done
doWithRetryBackoffElapsedIgnoringCancel ==
    /\ rpc = "backoff"
    /\ rpc' = "do"
    /\ waited' = waited + (IF attempt <= 1 THEN 1 ELSE 2)
    /\ requests' = requests + 1
    /\ httpTotal' = httpTotal + 1
    /\ UNCHANGED scraperVars
    /\ UNCHANGED <<ctxDone, attempt, lastErr, reqBody, ret, out, outcomes, lastReply,
                   op, uuids, bi, allResults, bpc, bret, sent, clean, replies, calls>>

\* select, case <-time.After(backoff): the wait ran to its end, the next
\* request goes out.  A goroutine parked in the select is woken by the first
\* of the two events, so this case is taken only while ctx is not done.
doWithRetryBackoffElapsed ==
    /\ rpc = "backoff"
    /\ ~ctxDone
    /\ rpc' = "do"
    /\ waited' = waited + Backoff(attempt)
    /\ requests' = requests + 1
    /\ httpTotal' = httpTotal + 1
    /\ UNCHANGED scraperVars
    /\ UNCHANGED <<ctxDone, attempt, lastErr, reqBody, ret, out, outcomes, lastReply,
                   op, uuids, bi, allResults, bpc, bret, sent, clean, replies, calls>>

\* select, case <-ctx.Done(): return ctx.Err()
doWithRetryBackoffCancelled ==
    /\ rpc = "backoff"
    /\ ctxDone
    /\ rpc' = "done"
    /\ ret' = [kind |-> "canceled"]
    /\ UNCHANGED scraperVars
    /\ UNCHANGED <<ctxDone, attempt, lastErr, reqBody, out, requests, outcomes,
                   lastReply, waited, op, uuids, bi, allResults, bpc, bret, sent,
                   httpTotal, clean, replies, calls>>

(***************************************************************************)
(* Client.doGet and Client.batchPost                                       *)
(***************************************************************************)
\* doGet: c.doWithRetry(ctx, "GET", url, nil, out)
doGet ==
    /\ op = "get"
    /\ bpc = "start"
    /\ bpc' = "call"
    /\ doWithRetryEnter(NoBody)
    /\ UNCHANGED scraperVars
    /\ UNCHANGED <<ctxDone, op, uuids, bi, allResults, bret, clean, replies, calls>>

doGetReturn ==
    /\ op = "get"
    /\ bpc = "call"
    /\ rpc = "done"
    /\ bpc' = "done"
    /\ bret' = [results |-> IF ret = Nil THEN out ELSE NoValue, err |-> ret]
    /\ rpc' = "idle"
    /\ UNCHANGED scraperVars
    /\ UNCHANGED <<ctxDone, attempt, lastErr, reqBody, ret, out, requests, outcomes,
                   lastReply, waited, op, uuids, bi, allResults, sent, httpTotal,
                   clean, replies, calls>>

\* mutant of Batch: the slice stops one id short
BatchOneShort(ids, i) == SubSeq(ids, i + 1, Min(i + batchSize, Len(ids)) - 1)

\* uuids[i:end] with end = min(i+batchSize, len(uuids))
Batch(ids, i) == SubSeq(ids, i + 1, Min(i + batchSize, Len(ids)))

\* the loop test of line 184 and what follows it: the next doPost, or the return
batchPostLoop ==
    /\ op = "batch"
    /\ bpc = "start"
    /\ IF bi < Len(uuids)
       THEN /\ bpc' = "call"
            /\ calls' = calls + 1
            /\ doWithRetryEnter([tag |-> "ids", ids |-> Batch(uuids, bi)])
            /\ UNCHANGED bret
       ELSE /\ bpc' = "done"
            /\ bret' = [results |-> [tag |-> "list", items |-> allResults], err |-> Nil]
            /\ UNCHANGED <<rpc, attempt, lastErr, reqBody, ret, out, requests,
                           outcomes, lastReply, waited, sent, httpTotal, calls>>
    /\ UNCHANGED scraperVars
    /\ UNCHANGED <<ctxDone, op, uuids, bi, allResults, clean, replies>>

\* mutant of batchPostChunk: a failed chunk returns the records collected so far
batchPostChunkPartial ==
    /\ op = "batch"
    /\ bpc = "call"
    /\ rpc = "done"
    /\ rpc' = "idle"
    /\ IF ret # Nil
       THEN /\ bpc' = "done"
            /\ bret' = [results |-> [tag |-> "list", items |-> allResults],
                        err |-> [kind |-> "batch", lo |-> bi,
                                 hi |-> Min(bi + batchSize, Len(uuids)), cause |-> ret]]
            /\ UNCHANGED <<allResults, bi, replies>>
       ELSE /\ bpc' = "start"
            /\ allResults' = allResults \o out.items
            /\ replies' = Append(replies, out.items)
            /\ bi' = bi + batchSize
            /\ UNCHANGED bret
    /\ UNCHANGED scraperVars
    /\ UNCHANGED <<ctxDone, attempt, lastErr, reqBody, ret, out, requests, outcomes,
                   lastReply, waited, op, uuids, sent, httpTotal, clean, calls>>

\* lines 193-196: doPost returned
batchPostChunk ==
    /\ op = "batch"
    /\ bpc = "call"
    /\ rpc = "done"
    /\ rpc' = "idle"
    /\ IF ret # Nil
       THEN /\ bpc' = "done"
            /\ bret' = [results |-> NoValue,
                        err |-> [kind |-> "batch", lo |-> bi,
                                 hi |-> Min(bi + batchSize, Len(uuids)), cause |-> ret]]
            /\ UNCHANGED <<allResults, bi, replies>>
       ELSE /\ bpc' = "start"
            /\ allResults' = allResults \o out.items
            /\ replies' = Append(replies, out.items)
            /\ bi' = bi + batchSize
            /\ UNCHANGED bret
    /\ UNCHANGED scraperVars
    /\ UNCHANGED <<ctxDone, attempt, lastErr, reqBody, ret, out, requests, outcomes,
                   lastReply, waited, op, uuids, sent, httpTotal, clean, calls>>

(***************************************************************************)
(* The store (the statements the ingestors issue through pgxpool)          *)
(***************************************************************************)
\* an optional column value: a nil pointer is <<>>, a pointer to v is <<v>>
Null == <<>>
Ptr(v) == <<v>>

\* INSERT INTO player_activity ... VALUES (ts, r.PlayerUUID, ...), one per row
ActivityRows(ts, rs) == [i \in 1..Len(rs) |-> [rs[i] EXCEPT !.ts = ts]]

\* mutant of UpsertRow: on a conflict the row is replaced by the new one
UpsertRowReplacing(table, uuid, name, ts) ==
    {r \in table : r.uuid # uuid}
    \cup {[uuid |-> uuid, name |-> name, first_seen |-> ts, last_seen |-> ts]}

\* mutant of UpsertRow: a plain INSERT into a table without the key
UpsertRowInserting(table, uuid, name, ts) ==
    table \cup {[uuid |-> uuid, name |-> name, first_seen |-> ts, last_seen |-> ts]}

\* one row of INSERT INTO players (uuid, name, first_seen, last_seen) VALUES
\* (uuid, name, ts, ts) ON CONFLICT (uuid) DO UPDATE SET name = EXCLUDED.name,
\* last_seen = EXCLUDED.last_seen
UpsertRow(table, uuid, name, ts) ==
    IF \E r \in table : r.uuid = uuid
    THEN {IF r.uuid = uuid THEN [r EXCEPT !.name = name, !.last_seen = ts] ELSE r :
            r \in table}
    ELSE table \cup {[uuid |-> uuid, name |-> name, first_seen |-> ts, last_seen |-> ts]}

RECURSIVE UpsertRows(_, _, _)
UpsertRows(table, rs, ts) ==
    IF rs = <<>> THEN table
    ELSE UpsertRows(UpsertRow(table, Head(rs).uuid, Head(rs).name, ts), Tail(rs), ts)

\* DATE_TRUNC('hour', ts), as the number of the hour (the clock is in minutes)
HourOf(ts) == ts \div hourMinutes

\* 'player_activity_' || TO_CHAR(start_hour, 'YYYYMMDD_HH24MISS'), start_hour
\* being a whole hour: the day, the hour of the day, no minutes and seconds
PartitionName(h) == <<"player_activity", h \div 24, h % 24, 0, 0>>

\* CREATE TABLE name PARTITION OF player_activity FOR VALUES FROM (start_hour)
\* TO (end_hour)
Partition(h) == [name |-> PartitionName(h), from |-> h * hourMinutes,
                 to |-> (h + 1) * hourMinutes]

\* EXISTS (SELECT 1 FROM pg_class WHERE relname = partition_name)
NameExists(parts, name) == \E k \in 1..Len(parts) : parts[k].name = name

\* mutant of create_activity_partitions: every partition of the window is
\* created, without the existence test
create_activity_partitionsUntested(parts, target_ts, ahead_hours) ==
    parts \o [i \in 1..(ahead_hours + 1) |-> Partition(HourOf(target_ts) + i - 1)]

\* The function create_activity_partitions(target_ts, ahead_hours): FOR i IN
\* 0..ahead_hours, the partition of hour DATE_TRUNC('hour', target_ts) + i is
\* created unless its name exists.  (The hours of one call have different
\* names, so the test of an iteration never sees a partition of the same call.)
create_activity_partitions(parts, target_ts, ahead_hours) ==
    parts \o SelectSeq([i \in 1..(ahead_hours + 1) |->
                            Partition(HourOf(target_ts) + i - 1)],
                       LAMBDA p : ~NameExists(parts, p.name))

\* the partitioned table takes a row when a partition's range holds its
\* snapshot_ts
Covered(parts, ts) == \E k \in 1..Len(parts) : parts[k].from <= ts /\ ts < parts[k].to

\* PostgreSQL rejects an INSERT ... ON CONFLICT DO UPDATE whose VALUES name
\* the same key twice
DistinctKeys(rs) == \A i, j \in 1..Len(rs) : rs[i].uuid = rs[j].uuid => i = j

(***************************************************************************)
(* scraper: what both loops share in shape                                 *)
(***************************************************************************)
Loops == {"high", "low"}
\* the goroutines that call tick(): Run, and one that calls tick() directly
Callers == {"run", "aux"}
SubScrapes == {"server", "towns", "nations", "players"}

\* a call of tick() that holds the gate
Running(l, c) == tpc[l][c] \notin {"idle", "skipped"}

\* mutant of tickTryLock: the gate is taken without being tested
tickLockUntested(l, c) ==
    /\ nticks[l] < MaxTicks
    /\ running' = [running EXCEPT ![l] = TRUE]
    /\ tpc' = [tpc EXCEPT ![l][c] = "entered"]
    /\ nticks' = [nticks EXCEPT ![l] = @ + 1]
    /\ did' = [did EXCEPT ![l][c] = {}]

\* mutant of tickTryLock: a denied caller goes on into the tick
tickTryLockFallThrough(l, c) ==
    /\ nticks[l] < MaxTicks
    /\ IF running[l]
       THEN /\ tpc' = [tpc EXCEPT ![l][c] = IF l = "high" THEN "provisioning" ELSE "entered"]
            /\ did' = [did EXCEPT ![l][c] = IF l = "high" THEN {"provision"} ELSE {}]
            /\ UNCHANGED <<running, nticks>>
       ELSE /\ running' = [running EXCEPT ![l] = TRUE]
            /\ tpc' = [tpc EXCEPT ![l][c] = "entered"]
            /\ nticks' = [nticks EXCEPT ![l] = @ + 1]
            /\ did' = [did EXCEPT ![l][c] = {}]

\* tick(): if !running.TryLock() { slog.Warn(...); return }; defer Unlock()
tickTryLock(l, c) ==
    /\ nticks[l] < MaxTicks
    /\ did' = [did EXCEPT ![l][c] = {}]
    /\ IF running[l]
       THEN /\ tpc' = [tpc EXCEPT ![l][c] = "skipped"]
            /\ UNCHANGED <<running, nticks>>
       ELSE /\ running' = [running EXCEPT ![l] = TRUE]
            /\ tpc' = [tpc EXCEPT ![l][c] = "entered"]
            /\ nticks' = [nticks EXCEPT ![l] = @ + 1]

\* mutant of tickReturn: tick returns without the Unlock
tickReturnLocked(l, c) ==
    /\ running' = running
    /\ tpc' = [tpc EXCEPT ![l][c] = "idle"]
    /\ run' = IF c = "run" THEN [run EXCEPT ![l] = "select"] ELSE run

\* tick() returns: the deferred Unlock runs, and Run is back at its select
tickReturn(l, c) ==
    /\ running' = [running EXCEPT ![l] = FALSE]
    /\ tpc' = [tpc EXCEPT ![l][c] = "idle"]
    /\ run' = IF c = "run" THEN [run EXCEPT ![l] = "select"] ELSE run

\* the `return` of a call the gate denied
tickSkippedReturn(l, c) ==
    /\ tpc[l][c] = "skipped"
    /\ tpc' = [tpc EXCEPT ![l][c] = "idle"]
    /\ run' = IF c = "run" THEN [run EXCEPT ![l] = "select"] ELSE run
    /\ UNCHANGED <<ctxDone, mainVars, clientVars, now, storeVars, tickerC, running, nticks, did,
                   hfVars, lfVars>>

(***************************************************************************)
(* HighFreq.Run and LowFreq.Run                                            *)
(***************************************************************************)
\* mutant of RunFirstTick: Run goes to its select without the first tick()
RunFirstTickWaiting(l) ==
    /\ run[l] = "start"
    /\ run' = [run EXCEPT ![l] = "select"]
    /\ UNCHANGED <<ctxDone, mainVars, clientVars, now, storeVars, tickerC, running, tpc,
                   nticks, did, hfVars, lfVars>>

\* "Run immediately on start": the tick() before the for loop
RunFirstTick(l) ==
    /\ run[l] = "start"
    /\ run' = [run EXCEPT ![l] = "tick"]
    /\ tickTryLock(l, "run")
    /\ UNCHANGED <<ctxDone, mainVars, clientVars, now, storeVars, tickerC, hfVars, lfVars>>

\* select, case <-ticker.C: tick()
RunReceiveTick(l) ==
    /\ run[l] = "select"
    /\ tickerC[l] # <<>>
    /\ tickerC' = [tickerC EXCEPT ![l] = <<>>]
    /\ run' = [run EXCEPT ![l] = "tick"]
    /\ tickTryLock(l, "run")
    /\ UNCHANGED <<ctxDone, mainVars, clientVars, now, storeVars, hfVars, lfVars>>

\* select, case <-ctx.Done(): return
RunStop(l) ==
    /\ run[l] = "select"
    /\ ctxDone
    /\ run' = [run EXCEPT ![l] = "stopped"]
    /\ UNCHANGED <<ctxDone, mainVars, clientVars, now, storeVars, tickerC, running, tpc, nticks,
                   did, hfVars, lfVars>>

\* The ticker's interval elapses.  ticker.C holds one firing: a firing that
\* finds it full is dropped, one that finds it empty stays until received.
\* The firing remembers (history) whether a tick of the loop was running.
TickerFire(l) ==
    /\ run[l] \in {"start", "select", "tick"}
    /\ tickerC[l] = <<>>
    /\ tickerC' = [tickerC EXCEPT ![l] = <<[duringTick |-> running[l]]>>]
    /\ UNCHANGED <<ctxDone, mainVars, clientVars, now, storeVars, run, running, tpc, nticks, did,
                   hfVars, lfVars>>

\* a goroutine other than Run calls tick()
DirectTick(l) ==
    /\ run[l] # "off"
    /\ tpc[l]["aux"] = "idle"
    /\ tickTryLock(l, "aux")
    /\ UNCHANGED <<ctxDone, mainVars, clientVars, now, storeVars, run, tickerC, hfVars, lfVars>>

\* time passes
Elapse ==
    /\ now + coolDownMinutes <= MaxNow
    /\ now' = now + coolDownMinutes
    /\ UNCHANGED <<ctxDone, mainVars, clientVars, storeVars, loopVars, hfVars, lfVars>>

(***************************************************************************)
(* HighFreq.tick                                                           *)
(***************************************************************************)
\* mutant of normalizeUUID: the identifier is used as it came
normalizeUUIDUnchanged(uuid) == uuid

\* strings.ReplaceAll(uuid, "-", ""), a uuid being the sequence of its characters
normalizeUUID(uuid) == SelectSeq(uuid, LAMBDA ch : ch # "-")

\* visibleMap: the entries of the position feed by normalized uuid; a later
\* entry overwrites an earlier one with the same key
visibleMap(ps) ==
    [k \in {normalizeUUID(ps[i].uuid) : i \in 1..Len(ps)} |->
        ps[CHOOSE i \in 1..Len(ps) :
              /\ normalizeUUID(ps[i].uuid) = k
              /\ \A j \in (i + 1)..Len(ps) : normalizeUUID(ps[j].uuid) # k]]

\* mutant of activityRows: the lookup uses the raw uuid of the online entry
activityRowsRawKey(online, vm) ==
    [i \in 1..Len(online) |->
        IF online[i].uuid \in DOMAIN vm
        THEN [ts |-> 0, uuid |-> online[i].uuid, name |-> online[i].name,
              online |-> TRUE, visible |-> TRUE,
              x |-> Ptr(vm[online[i].uuid].x), y |-> Ptr(vm[online[i].uuid].y),
              z |-> Ptr(vm[online[i].uuid].z), yaw |-> Ptr(vm[online[i].uuid].yaw),
              world |-> Ptr(vm[online[i].uuid].world)]
        ELSE [ts |-> 0, uuid |-> online[i].uuid, name |-> online[i].name,
              online |-> TRUE, visible |-> FALSE,
              x |-> Null, y |-> Null, z |-> Null, yaw |-> Null, world |-> Null]]

\* lines 630-651: one activityRow per online player
activityRows(online, vm) ==
    [i \in 1..Len(online) |->
        LET key == normalizeUUID(online[i].uuid)
        IN  IF key \in DOMAIN vm
            THEN [ts |-> 0, uuid |-> online[i].uuid, name |-> online[i].name,
                  online |-> TRUE, visible |-> TRUE,
                  x |-> Ptr(vm[key].x), y |-> Ptr(vm[key].y), z |-> Ptr(vm[key].z),
                  yaw |-> Ptr(vm[key].yaw), world |-> Ptr(vm[key].world)]
            ELSE [ts |-> 0, uuid |-> online[i].uuid, name |-> online[i].name,
                  online |-> TRUE, visible |-> FALSE,
                  x |-> Null, y |-> Null, z |-> Null, yaw |-> Null, world |-> Null]]

FetchIdle == [pc |-> "idle", err |-> FALSE, players |-> <<>>]
FetchFlying == [pc |-> "flying", err |-> FALSE, players |-> <<>>]

\* lines 590-611: snapshotTS, and the two fetch goroutines are started
hfStartFetches ==
    /\ snapshotTS' = now
    /\ onl' = FetchFlying
    /\ mp' = FetchFlying

\* mutant of ensurePartitionsCall: the store call is made at every tick
ensurePartitionsCallAlways(c) ==
    /\ tpc["high"][c] = "entered"
    /\ tpc' = [tpc EXCEPT !["high"][c] = "provisioning"]
    /\ did' = [did EXCEPT !["high"][c] = @ \cup {"provision"}]
    /\ UNCHANGED <<ctxDone, mainVars, clientVars, now, storeVars, run, tickerC, running, nticks,
                   hfVars, lfVars>>

\* ensurePartitions up to the store call, then (inside the cool-down) on to
\* the fetches
ensurePartitionsCall(c) ==
    /\ tpc["high"][c] = "entered"
    /\ IF now - lastPartitionCheck < coolDownMinutes
       THEN /\ tpc' = [tpc EXCEPT !["high"][c] = "wait"]
            /\ did' = [did EXCEPT !["high"][c] = @ \cup {"fetch"}]
            /\ hfStartFetches
       ELSE /\ tpc' = [tpc EXCEPT !["high"][c] = "provisioning"]
            /\ did' = [did EXCEPT !["high"][c] = @ \cup {"provision"}]
            /\ UNCHANGED <<snapshotTS, onl, mp>>
    /\ UNCHANGED <<ctxDone, mainVars, clientVars, now, storeVars, run, tickerC, running, nticks,
                   lastPartitionCheck, rows, lfVars>>

\* mutant of ensurePartitionsReturn: lastPartitionCheck is set whatever the
\* store call returned
ensurePartitionsReturnStamping(c, ok) ==
    /\ tpc["high"][c] = "provisioning"
    /\ ok => ~ctxDone
    /\ lastPartitionCheck' = now
    /\ partitions' = IF ok THEN create_activity_partitions(partitions, now, aheadHours)
                     ELSE partitions
    /\ lastProvision' = [at |-> now, ok |-> ok]
    /\ tpc' = [tpc EXCEPT !["high"][c] = "wait"]
    /\ did' = [did EXCEPT !["high"][c] = @ \cup {"fetch"}]
    /\ hfStartFetches
    /\ UNCHANGED <<ctxDone, mainVars, clientVars, now, activity, players, snap, dim, run,
                   tickerC, running, nticks, rows, lfVars>>

\* SELECT create_activity_partitions(NOW(), 48) returned; then on to the fetches
ensurePartitionsReturn(c, ok) ==
    /\ tpc["high"][c] = "provisioning"
    /\ ok => ~ctxDone
    /\ IF ok
       THEN /\ lastPartitionCheck' = now
            /\ partitions' = create_activity_partitions(partitions, now, aheadHours)
       ELSE UNCHANGED <<lastPartitionCheck, partitions>>
    /\ lastProvision' = [at |-> now, ok |-> ok]
    /\ tpc' = [tpc EXCEPT !["high"][c] = "wait"]
    /\ did' = [did EXCEPT !["high"][c] = @ \cup {"fetch"}]
    /\ hfStartFetches
    /\ UNCHANGED <<ctxDone, mainVars, clientVars, now, activity, players, snap, dim, run,
                   tickerC, running, nticks, rows, lfVars>>

\* onlineResp, onlineErr = h.client.GetOnline(ctx)
GetOnlineReturn(res) ==
    /\ onl.pc = "flying"
    /\ ~res.err => ~ctxDone
    /\ onl' = [pc |-> "done", err |-> res.err, players |-> res.players]
    /\ UNCHANGED <<ctxDone, mainVars, clientVars, now, storeVars, loopVars, lastPartitionCheck,
                   snapshotTS, mp, rows, lfVars>>

\* mapResp, mapErr = h.client.GetMapPlayers(ctx)
GetMapPlayersReturn(res) ==
    /\ mp.pc = "flying"
    /\ ~res.err => ~ctxDone
    /\ mp' = [pc |-> "done", err |-> res.err, players |-> res.players]
    /\ UNCHANGED <<ctxDone, mainVars, clientVars, now, storeVars, loopVars, lastPartitionCheck,
                   snapshotTS, onl, rows, lfVars>>

\* mutant of hfJoin: the online-list error is logged and the tick goes on
hfJoinPastOnlineErr(c) ==
    /\ tpc["high"][c] = "wait"
    /\ onl.pc = "done"
    /\ mp.pc = "done"
    /\ rows' = IF onl.err THEN <<>>
               ELSE activityRows(onl.players,
                                 visibleMap(IF mp.err THEN <<>> ELSE mp.players))
    /\ IF ~onl.err /\ Len(rows') = 0
       THEN /\ tickReturn("high", c)
            /\ UNCHANGED did
       ELSE /\ tpc' = [tpc EXCEPT !["high"][c] = "insert"]
            /\ did' = [did EXCEPT !["high"][c] = @ \cup {"write"}]
            /\ UNCHANGED <<running, run>>
    /\ UNCHANGED <<ctxDone, mainVars, clientVars, now, storeVars, tickerC, nticks,
                   lastPartitionCheck, snapshotTS, onl, mp, lfVars>>

\* mutant of hfJoin: without the test `if len(rows) == 0`
hfJoinNoEmptyTest(c) ==
    /\ tpc["high"][c] = "wait"
    /\ onl.pc = "done"
    /\ mp.pc = "done"
    /\ IF onl.err
       THEN /\ rows' = <<>>
            /\ tickReturn("high", c)
            /\ UNCHANGED did
       ELSE /\ rows' = activityRows(onl.players,
                                    visibleMap(IF mp.err THEN <<>> ELSE mp.players))
            /\ tpc' = [tpc EXCEPT !["high"][c] = "insert"]
            /\ did' = [did EXCEPT !["high"][c] = @ \cup {"write"}]
            /\ UNCHANGED <<running, run>>
    /\ UNCHANGED <<ctxDone, mainVars, clientVars, now, storeVars, tickerC, nticks,
                   lastPartitionCheck, snapshotTS, onl, mp, lfVars>>

\* mutant of hfJoin: an error of the position fetch ends the tick too
hfJoinBothNeeded(c) ==
    /\ tpc["high"][c] = "wait"
    /\ onl.pc = "done"
    /\ mp.pc = "done"
    /\ IF onl.err \/ mp.err
       THEN /\ rows' = <<>>
            /\ tickReturn("high", c)
            /\ UNCHANGED did
       ELSE /\ rows' = activityRows(onl.players, visibleMap(mp.players))
            /\ IF Len(rows') = 0
               THEN /\ tickReturn("high", c)
                    /\ UNCHANGED did
               ELSE /\ tpc' = [tpc EXCEPT !["high"][c] = "insert"]
                    /\ did' = [did EXCEPT !["high"][c] = @ \cup {"write"}]
                    /\ UNCHANGED <<running, run>>
    /\ UNCHANGED <<ctxDone, mainVars, clientVars, now, storeVars, tickerC, nticks,
                   lastPartitionCheck, snapshotTS, onl, mp, lfVars>>

\* lines 611-659: wg.Wait() is over; the error tests, the rows, and either
\* the return or the call of insertActivity.  onl and mp keep the two results
\* (onlineResp, onlineErr, mapResp, mapErr) until the next tick overwrites them.
hfJoin(c) ==
    /\ tpc["high"][c] = "wait"
    /\ onl.pc = "done"
    /\ mp.pc = "done"
    /\ IF onl.err
       THEN /\ rows' = <<>>
            /\ tickReturn("high", c)
            /\ UNCHANGED did
       ELSE /\ rows' = activityRows(onl.players,
                                    visibleMap(IF mp.err THEN <<>> ELSE mp.players))
            /\ IF Len(rows') = 0
               THEN /\ tickReturn("high", c)
                    /\ UNCHANGED did
               ELSE /\ tpc' = [tpc EXCEPT !["high"][c] = "insert"]
                    /\ did' = [did EXCEPT !["high"][c] = @ \cup {"write"}]
                    /\ UNCHANGED <<running, run>>
    /\ UNCHANGED <<ctxDone, mainVars, clientVars, now, storeVars, tickerC, nticks,
                   lastPartitionCheck, snapshotTS, onl, mp, lfVars>>

\* mutant of insertActivityReturn: the error of insertActivity is logged and
\* the tick goes on to h.upsertPlayers
insertActivityReturnLenient(c, ok) ==
    /\ tpc["high"][c] = "insert"
    /\ ok => (~ctxDone /\ Covered(partitions, snapshotTS))
    /\ activity' = IF ok THEN activity \o ActivityRows(snapshotTS, rows) ELSE activity
    /\ tpc' = [tpc EXCEPT !["high"][c] = "upsert"]
    /\ UNCHANGED <<running, run>>
    /\ UNCHANGED <<ctxDone, mainVars, clientVars, now, players, partitions, lastProvision, snap,
                   dim,
                   tickerC, nticks, did, hfVars, lfVars>>

\* h.insertActivity returned; on success on to h.upsertPlayers
insertActivityReturn(c, ok) ==
    /\ tpc["high"][c] = "insert"
    /\ ok => (~ctxDone /\ Covered(partitions, snapshotTS))
    /\ IF ok
       THEN /\ activity' = activity \o ActivityRows(snapshotTS, rows)
            /\ tpc' = [tpc EXCEPT !["high"][c] = "upsert"]
            /\ UNCHANGED <<running, run>>
       ELSE /\ tickReturn("high", c)
            /\ UNCHANGED activity
    /\ UNCHANGED <<ctxDone, mainVars, clientVars, now, players, partitions, lastProvision, snap,
                   dim,
                   tickerC, nticks, did, hfVars, lfVars>>

\* h.upsertPlayers returned; tick returns
upsertPlayersReturn(c, ok) ==
    /\ tpc["high"][c] = "upsert"
    /\ ok => (~ctxDone /\ DistinctKeys(rows))
    /\ players' = IF ok THEN UpsertRows(players, rows, snapshotTS) ELSE players
    /\ tickReturn("high", c)
    /\ UNCHANGED <<ctxDone, mainVars, clientVars, now, activity, partitions, lastProvision, snap,
                   dim,
                   tickerC, nticks, did, hfVars, lfVars>>

(***************************************************************************)
(* LowFreq.tick                                                            *)
(***************************************************************************)
\* the call of tick() that holds the gate of loop l
Owner(l) == CHOOSE c \in Callers : Running(l, c)

\* how a sub-scrape function can have ended: nil, or the error of a fetch, of
\* a store call the store or the context failed, of a statement the store
\* rejected as written
SubEnds == {"done", "errFetch", "errStore", "errStatement"}

Ended(g) == sub[g] \in SubEnds

\* gCtx, the context the sub-scrapes run under (errgroup.WithContext(ctx))
gCtxDone == ctxDone \/ gCancelled

\* a detail record that is not an object with string name and uuid
BadRecord == [tag |-> "bad", uuid |-> <<>>, name |-> ""]

\* extractNameUUID: json.Unmarshal of the raw record into {Name, UUID}.  A
\* field the object does not have (or has as null) keeps its zero value, the
\* empty string, and is no error.
extractNameUUID(raw) ==
    IF raw.tag = "obj"
    THEN [err |-> FALSE,
          name |-> IF "name" \in DOMAIN raw THEN raw.name ELSE "",
          uuid |-> IF "uuid" \in DOMAIN raw THEN raw.uuid ELSE <<>>]
    ELSE [err |-> TRUE, name |-> "", uuid |-> <<>>]

CeilDiv(n, d) == (n + d - 1) \div d

\* the loop `for i := 0; i < len(details); i += chunkSize`: details[i:end]
Chunks(details) ==
    [c \in 1..CeilDiv(Len(details), chunkSize) |->
        SubSeq(details, (c - 1) * chunkSize + 1, Min(c * chunkSize, Len(details)))]

\* mutant of Extractable: no record is passed over
ExtractableAll(chunk) == [j \in 1..Len(chunk) |-> j]

\* the positions (from 1) of the records of a chunk that extractNameUUID accepts
Extractable(chunk) ==
    SelectSeq([j \in 1..Len(chunk) |-> j], LAMBDA j : ~extractNameUUID(chunk[j]).err)

\* the statement a chunk becomes: whether the VALUES list starts with a comma,
\* the number before the first placeholder of each tuple, and the arguments
\* (one row per tuple; data, the raw record, is an argument of the snapshot
\* inserts only).  insertTownSnapshots tests and numbers with the
\* position j in the chunk, every other function with the count of records
\* written so far.
chunkStatement(g, kind, chunk, ts) ==
    LET ix == Extractable(chunk)
        byPosition == g = "towns" /\ kind = "insert"
    IN  [comma |-> byPosition /\ ix # <<>> /\ ix[1] > 1,
         bases |-> [k \in 1..Len(ix) |-> IF byPosition THEN (ix[k] - 1) * 4
                                         ELSE (k - 1) * 4],
         rows |-> [k \in 1..Len(ix) |->
                     [ts |-> ts, uuid |-> extractNameUUID(chunk[ix[k]]).uuid,
                      name |-> extractNameUUID(chunk[ix[k]]).name,
                      data |-> chunk[ix[k]]]]]

\* the statements of one insert<Kind>Snapshots or upsert<Kind>s call, a chunk
\* with nothing to write being passed over
Statements(g, kind, details, ts) ==
    SelectSeq([c \in 1..Len(Chunks(details)) |->
                  chunkStatement(g, kind, Chunks(details)[c], ts)],
              LAMBDA st : st.rows # <<>>)

\* mutant of serverStatement: scrapeServer returns after the fetch
serverStatementNone(ts) == <<>>

\* the one statement of scrapeServer
serverStatement(ts) ==
    <<[comma |-> FALSE, bases |-> <<0>>,
       rows |-> <<[ts |-> ts, uuid |-> <<>>, name |-> "server"]>>]>>

\* The store takes a statement when its text parses and its placeholders are
\* $1..$n for the n arguments sent, and, for ON CONFLICT DO UPDATE, when no
\* key comes twice.
Accepted(kind, st) ==
    /\ ~st.comma
    /\ \A k \in 1..Len(st.bases) : st.bases[k] = (k - 1) * 4
    /\ kind = "upsert" => DistinctKeys(st.rows)

\* the first statement of sts that fails, fault being the one the store or the
\* context fails for its own reasons (0: none); Len(sts) + 1 when none fails
FirstFailure(kind, sts, fault) ==
    LET bad == {k \in 1..Len(sts) : k = fault \/ ~Accepted(kind, sts[k])}
    IN  IF bad = {} THEN Len(sts) + 1 ELSE CHOOSE k \in bad : \A m \in bad : k <= m

\* mutant of RowsOf: the rows carry the clock's reading at the write
RECURSIVE RowsOfAtNow(_, _)
RowsOfAtNow(sts, n) ==
    IF n = 0 THEN <<>>
    ELSE RowsOfAtNow(sts, n - 1)
         \o [i \in 1..Len(sts[n].rows) |-> [sts[n].rows[i] EXCEPT !.ts = now]]

\* mutant of RowsOf: the statements after the n-th are issued as well
RowsOfEvery(sts, n) ==
    IF sts = <<>> THEN <<>>
    ELSE LET all[k \in 0..Len(sts)] == IF k = 0 THEN <<>> ELSE all[k - 1] \o sts[k].rows
         IN  all[Len(sts)]

\* the rows of the first n statements of sts
RECURSIVE RowsOf(_, _)
RowsOf(sts, n) == IF n = 0 THEN <<>> ELSE RowsOf(sts, n - 1) \o sts[n].rows

\* lines 62-99: snapshotTS, the errgroup, and the four g.Go goroutines
lfStart(c) ==
    /\ tpc["low"][c] = "entered"
    /\ lfTS' = now
    /\ sub' = [g \in SubScrapes |-> IF g = "server" THEN "fetch" ELSE "list"]
    /\ det' = [g \in SubScrapes |-> <<>>]
    /\ gCancelled' = FALSE
    /\ tpc' = [tpc EXCEPT !["low"][c] = "wait"]
    /\ did' = [did EXCEPT !["low"][c] = @ \cup {"fetch"}]
    /\ UNCHANGED <<ctxDone, mainVars, clientVars, now, storeVars, run, tickerC, running, nticks,
                   hfVars>>

\* where a sub-scrape is after a fetch returned res: ended with the error; at
\* the next fetch; inside the store call of scrapeServer or of
\* insert<Kind>Snapshots; or ended, when no record is there to write (the
\* insert and the upsert functions then return without a store call)
AfterFetch(g, res) ==
    IF res.err THEN "errFetch"
    ELSE IF sub[g] = "list" THEN "detail"
    ELSE IF sub[g] = "fetch" \/ Extractable(res.items) # <<>> THEN "insert"
    ELSE "done"

\* mutant of subFetchReturn: the g.Go function returns the sub-scrape's error
subFetchReturnPropagating(g, res) ==
    /\ sub[g] \in {"fetch", "list", "detail"}
    /\ ~res.err => ~gCtxDone
    /\ sub[g] # "detail" => res.items = <<>>
    /\ sub' = [sub EXCEPT ![g] = AfterFetch(g, res)]
    /\ det' = IF ~res.err /\ sub[g] = "detail" THEN [det EXCEPT ![g] = res.items] ELSE det
    /\ did' = IF AfterFetch(g, res) = "insert"
              THEN [did EXCEPT !["low"][Owner("low")] = @ \cup {"write"}]
              ELSE did
    /\ gCancelled' = res.err
    /\ UNCHANGED <<ctxDone, mainVars, clientVars, now, storeVars, run, tickerC, running, tpc,
                   nticks, hfVars, lfTS>>

\* a fetch of a sub-scrape returned (GetServer; Get<Kind>sList; Post<Kind>s,
\* whose records are kept).  On an error the sub-scrape returns it, and the
\* g.Go function logs it and returns nil.
subFetchReturn(g, res) ==
    /\ sub[g] \in {"fetch", "list", "detail"}
    /\ ~res.err => ~gCtxDone
    /\ sub[g] # "detail" => res.items = <<>>
    /\ sub' = [sub EXCEPT ![g] = AfterFetch(g, res)]
    /\ det' = IF ~res.err /\ sub[g] = "detail" THEN [det EXCEPT ![g] = res.items] ELSE det
    /\ did' = IF AfterFetch(g, res) = "insert"
              THEN [did EXCEPT !["low"][Owner("low")] = @ \cup {"write"}]
              ELSE did
    /\ UNCHANGED <<ctxDone, mainVars, clientVars, now, storeVars, run, tickerC, running, tpc,
                   nticks, hfVars, lfTS, gCancelled>>

\* a store step of a sub-scrape returned: scrapeServer's insert, or a whole
\* insert<Kind>Snapshots or upsert<Kind>s call, which issues its statements one
\* after the other and returns at the first that fails
subWriteReturn(g, fault) ==
    /\ sub[g] \in {"insert", "upsert"}
    /\ LET kind == sub[g]
           sts == IF g = "server" THEN serverStatement(lfTS)
                  ELSE Statements(g, kind, det[g], lfTS)
           ff == FirstFailure(kind, sts, fault)
           written == RowsOf(sts, ff - 1)
       IN  /\ fault <= Len(sts)
           /\ gCtxDone => fault = 1
           /\ sub' = [sub EXCEPT ![g] =
                         IF ff <= Len(sts)
                         THEN (IF ff = fault THEN "errStore" ELSE "errStatement")
                         ELSE IF kind = "insert" /\ g # "server" THEN "upsert"
                         ELSE "done"]
           /\ snap' = IF kind = "insert" THEN [snap EXCEPT ![g] = @ \o written] ELSE snap
           /\ dim' = IF kind = "upsert" /\ g # "players"
                     THEN [dim EXCEPT ![g] = UpsertRows(@, written, lfTS)] ELSE dim
           /\ players' = IF kind = "upsert" /\ g = "players"
                         THEN UpsertRows(players, written, lfTS) ELSE players
    /\ UNCHANGED <<ctxDone, mainVars, clientVars, now, activity, partitions, lastProvision,
                   loopVars, hfVars,
                   lfTS, det, gCancelled>>

\* g.Wait() is over (it cancels gCtx): tick returns
lfJoin(c) ==
    /\ tpc["low"][c] = "wait"
    /\ \A g \in SubScrapes : Ended(g)
    /\ sub' = [g \in SubScrapes |-> "idle"]
    /\ gCancelled' = TRUE
    /\ tickReturn("low", c)
    /\ UNCHANGED <<ctxDone, mainVars, clientVars, now, storeVars, tickerC, nticks, did, hfVars,
                   lfTS, det>>

(***************************************************************************)
(* main: the shutdown signal                                               *)
(***************************************************************************)
\* cancel() in the signal goroutine
Cancel ==
    /\ ~ctxDone
    /\ ctxDone' = TRUE
    /\ UNCHANGED <<clientVars, scraperVars>>

(***************************************************************************)
(* What the remote API may answer, as the ingestors see it                 *)
(***************************************************************************)
\* uuids as sequences of characters: one player in the two formats the two
\* sources use (with and without dashes), and a second player
UuidPool == {<<"a", "-", "b">>, <<"a", "b">>, <<"b", "a">>}

OnlineEntries == {[uuid |-> u, name |-> "name"] : u \in UuidPool}

MapEntries ==
    {[uuid |-> u, x |-> p[1], y |-> p[2], z |-> p[3], yaw |-> p[4], world |-> p[5]] :
        u \in UuidPool, p \in {<<0, 0, 0, 0, "w0">>, <<1, 2, 3, 4, "w1">>}}

Lists(S, n) == UNION {[1..k -> S] : k \in 0..n}

\* results of GetOnline / GetMapPlayers: an error, or a list of at most n entries
FetchResults(S, n) ==
    {[err |-> TRUE, players |-> <<>>]}
    \cup {[err |-> FALSE, players |-> ps] : ps \in Lists(S, n)}

\* the same with one possible entry, for the specifications about the loops
LoopOnlineResults == FetchResults({e \in OnlineEntries : e.uuid = <<"a", "-", "b">>}, 1)
LoopMapResults ==
    FetchResults({e \in MapEntries : e.uuid = <<"a", "b">> /\ e.x = 1}, 1)

\* the detail records of the snapshot loop: two entities, and a record
\* extractNameUUID rejects
DetailRecords ==
    {[tag |-> "obj", uuid |-> u, name |-> "name"] : u \in {<<"a", "b">>, <<"b", "a">>}}
    \cup {BadRecord}

\* results of a fetch of a sub-scrape: an error, or the records (none for
\* GetServer and the list fetches, whose content the model does not follow)
SubResults(L) ==
    {[err |-> TRUE, items |-> <<>>]} \cup {[err |-> FALSE, items |-> ds] : ds \in L}

\* for the specifications about the loops: no detail record
LoopDetailResults == SubResults({<<>>})

(***************************************************************************)
(* Initial states                                                          *)
(***************************************************************************)
\* the zero time.Time of a fresh HighFreq: long before any clock reading
ZeroTime == 0 - 1000 * coolDownMinutes

\* an empty store, and the fields of the health server and of the scrapers as
\* their constructors leave them
ScraperFresh ==
    /\ lastTick = [high |-> Null, low |-> Null]
    /\ now = 0
    /\ activity = <<>>
    /\ players = {}
    /\ lastProvision = [at |-> ZeroTime, ok |-> FALSE]
    /\ snap = [g \in SubScrapes |-> <<>>]
    /\ dim = [g \in {"towns", "nations"} |-> {}]
    /\ tickerC = [l \in Loops |-> <<>>]
    /\ running = [l \in Loops |-> FALSE]
    /\ tpc = [l \in Loops |-> [c \in Callers |-> "idle"]]
    /\ nticks = [l \in Loops |-> 0]
    /\ did = [l \in Loops |-> [c \in Callers |-> {}]]
    /\ lastPartitionCheck = ZeroTime
    /\ snapshotTS = 0
    /\ onl = FetchIdle
    /\ mp = FetchIdle
    /\ rows = <<>>
    /\ lfTS = 0
    /\ sub = [g \in SubScrapes |-> "idle"]
    /\ det = [g \in SubScrapes |-> <<>>]
    /\ gCancelled = FALSE

\* main at its select: configuration loaded, store connected, the migration
\* file executed (it creates the partitions of the hour and the next 48)
MainWaiting ==
    /\ proc = [pc |-> "select", files |-> 1, applied |-> <<1>>]
    /\ partitions = create_activity_partitions(<<>>, 0, aheadHours)

ScraperRest ==
    /\ MainWaiting
    /\ ScraperFresh

(***************************************************************************)
(* SpecClient                                                              *)
(***************************************************************************)
\* lengths of the id lists tried: the multiples of half a batch, and the
\* lengths next to a multiple of a whole batch
IdCounts ==
    {n \in 0..MaxIds : \/ n % (batchSize \div 2) = 0
                       \/ n % batchSize \in {1, batchSize - 1}
                       \/ n = MaxIds}

ClientIdle ==
    /\ rpc = "idle"
    /\ attempt = 0
    /\ lastErr = Nil
    /\ reqBody = NoBody
    /\ ret = Nil
    /\ out = NoValue
    /\ requests = 0
    /\ outcomes = <<>>
    /\ lastReply = NoValue
    /\ waited = 0
    /\ bi = 0
    /\ allResults = <<>>
    /\ bpc = "start"
    /\ bret = [results |-> NoValue, err |-> Nil]
    /\ sent = <<>>
    /\ httpTotal = 0
    /\ clean = TRUE
    /\ replies = <<>>
    /\ calls = 0

InitClient ==
    /\ ctxDone = FALSE
    /\ ClientIdle
    /\ ScraperRest
    /\ run = [l \in Loops |-> "off"]
    /\ \/ /\ op = "get"
          /\ uuids = <<>>
       \/ /\ op = "batch"
          /\ \E n \in IdCounts : uuids = [j \in 1..n |-> j]

NextClient ==
    \/ doGet
    \/ doGetReturn
    \/ batchPostLoop
    \/ batchPostChunk
    \/ \E a \in Answers(reqBody) : doWithRetryAnswer(a)
    \/ doWithRetryBackoffElapsed
    \/ doWithRetryBackoffCancelled
    \/ Cancel

SpecClient == InitClient /\ [][NextClient]_vars

(***************************************************************************)
(* Spec: the loops as main starts them.  The two loops share no field (each *)
(* has its own mutex, ticker and locals; ctx is only read), and the         *)
(* scheduler may run either Run goroutine arbitrarily long before the       *)
(* other: each behaviour follows one loop.                                  *)
(***************************************************************************)
Init ==
    /\ ctxDone = FALSE
    /\ ClientIdle
    /\ op = "get"
    /\ uuids = <<>>
    /\ ScraperRest
    /\ \E l \in Loops : run = [k \in Loops |-> IF k = l THEN "start" ELSE "off"]

RunSteps ==
    \/ \E l \in Loops : RunFirstTick(l)
    \/ \E l \in Loops : RunReceiveTick(l)
    \/ \E l \in Loops : RunStop(l)
    \/ \E l \in Loops : TickerFire(l)
    \/ Elapse
    \/ Cancel

HighTickSteps ==
    \/ \E c \in Callers : ensurePartitionsCall(c)
    \/ \E c \in Callers, ok \in BOOLEAN : ensurePartitionsReturn(c, ok)
    \/ \E c \in Callers : hfJoin(c)
    \/ \E c \in Callers, ok \in BOOLEAN : insertActivityReturn(c, ok)
    \/ \E c \in Callers, ok \in BOOLEAN : upsertPlayersReturn(c, ok)

LowTickSteps ==
    \/ \E c \in Callers : lfStart(c)
    \/ \E g \in SubScrapes, res \in LoopDetailResults : subFetchReturn(g, res)
    \/ \E g \in SubScrapes, fault \in 0..1 : subWriteReturn(g, fault)
    \/ \E c \in Callers : lfJoin(c)

LoopFetchSteps ==
    \/ \E res \in LoopOnlineResults : GetOnlineReturn(res)
    \/ \E res \in LoopMapResults : GetMapPlayersReturn(res)

Next ==
    \/ RunSteps
    \/ HighTickSteps
    \/ LowTickSteps
    \/ LoopFetchSteps

Spec == Init /\ [][Next]_vars

(***************************************************************************)
(* SpecGate: Spec, and a second goroutine per loop that calls tick()       *)
(* directly, concurrently with Run.                                        *)
(***************************************************************************)
NextGate ==
    \/ Next
    \/ \E l \in Loops : DirectTick(l)
    \/ \E l \in Loops, c \in Callers : tickSkippedReturn(l, c)

SpecGate == Init /\ [][NextGate]_vars

(***************************************************************************)
(* SpecActivity: the first tick of the activity loop, over every online    *)
(* list and position feed of the bounded sizes.                            *)
(***************************************************************************)
InitActivity ==
    /\ ctxDone = FALSE
    /\ ClientIdle
    /\ op = "get"
    /\ uuids = <<>>
    /\ ScraperRest
    /\ run = [k \in Loops |-> IF k = "high" THEN "start" ELSE "off"]

NextActivity ==
    \/ RunFirstTick("high")
    \/ HighTickSteps
    \/ \E res \in FetchResults(OnlineEntries, MaxOnline) : GetOnlineReturn(res)
    \/ \E res \in FetchResults(MapEntries, MaxMap) : GetMapPlayersReturn(res)
    \/ Cancel

SpecActivity == InitActivity /\ [][NextActivity]_vars


(***************************************************************************)
(* SpecSnapshot: the first tick of the snapshot loop, each fetch failing or *)
(* succeeding, each kind's details being one good record.                   *)
(***************************************************************************)
PlainDetails == {<<[tag |-> "obj", uuid |-> <<"a", "b">>, name |-> "name"]>>}

InitSnapshot ==
    /\ ctxDone = FALSE
    /\ ClientIdle
    /\ op = "get"
    /\ uuids = <<>>
    /\ ScraperRest
    /\ run = [k \in Loops |-> IF k = "low" THEN "start" ELSE "off"]

NextSnapshot ==
    \/ RunFirstTick("low")
    \/ \E c \in Callers : lfStart(c)
    \/ \E g \in SubScrapes, res \in SubResults(PlainDetails \cup {<<>>}) :
          subFetchReturn(g, res)
    \/ \E g \in SubScrapes, fault \in 0..1 : subWriteReturn(g, fault)
    \/ \E c \in Callers : lfJoin(c)
    \/ Cancel

SpecSnapshot == InitSnapshot /\ [][NextSnapshot]_vars

(***************************************************************************)
(* SpecDetails: the first tick of the snapshot loop, one sub-scrape getting *)
(* through its fetches and the others failing theirs.  The one that gets    *)
(* through receives every list of detail records of the bounded length.     *)
(***************************************************************************)
DetailResults == SubResults(Lists(DetailRecords, MaxDetails))

\* no sub-scrape other than g has had a fetch succeed
OnlyOneThrough(g) ==
    \A h \in SubScrapes \ {g} : sub[h] \in {"fetch", "list", "errFetch"}

NextDetails ==
    \/ RunFirstTick("low")
    \/ \E c \in Callers : lfStart(c)
    \/ \E g \in SubScrapes, res \in DetailResults :
          /\ ~res.err => OnlyOneThrough(g)
          /\ subFetchReturn(g, res)
    \/ \E g \in SubScrapes, fault \in 0..1 : subWriteReturn(g, fault)
    \/ \E c \in Callers : lfJoin(c)

SpecDetails == InitSnapshot /\ [][NextDetails]_vars

(***************************************************************************)
(* SpecBoth: the two loops side by side, as main starts them, for the first *)
(* tick of each, time passing between any two steps.  The online list and   *)
(* the player details name the same player; of the snapshot tick only the   *)
(* players sub-scrape gets through its fetches.                             *)
(***************************************************************************)
InitBoth ==
    /\ ctxDone = FALSE
    /\ ClientIdle
    /\ op = "get"
    /\ uuids = <<>>
    /\ ScraperRest
    /\ run = [k \in Loops |-> "start"]

BothOnlineResults == FetchResults({e \in OnlineEntries : e.uuid = <<"a", "b">>}, 1)

NextBoth ==
    \/ \E l \in Loops : RunFirstTick(l)
    \/ Elapse
    \/ HighTickSteps
    \/ \E res \in BothOnlineResults : GetOnlineReturn(res)
    \/ \E res \in LoopMapResults : GetMapPlayersReturn(res)
    \/ \E c \in Callers : lfStart(c)
    \/ \E g \in SubScrapes, res \in SubResults(PlainDetails \cup {<<>>}) :
          /\ g # "players" => res.err
          /\ subFetchReturn(g, res)
    \/ \E g \in SubScrapes, fault \in 0..1 : subWriteReturn(g, fault)
    \/ \E c \in Callers : lfJoin(c)

SpecBoth == InitBoth /\ [][NextBoth]_vars

(***************************************************************************)
(* SpecTimed: the first tick of one of the loops, time passing between any *)
(* two steps.                                                              *)
(***************************************************************************)
NextTimed ==
    \/ \E l \in Loops : RunFirstTick(l)
    \/ Elapse
    \/ HighTickSteps
    \/ \E res \in BothOnlineResults : GetOnlineReturn(res)
    \/ \E res \in LoopMapResults : GetMapPlayersReturn(res)
    \/ \E c \in Callers : lfStart(c)
    \/ \E g \in SubScrapes, res \in SubResults(PlainDetails \cup {<<>>}) :
          subFetchReturn(g, res)
    \/ \E g \in SubScrapes, fault \in 0..1 : subWriteReturn(g, fault)
    \/ \E c \in Callers : lfJoin(c)

SpecTimed == Init /\ [][NextTimed]_vars

(***************************************************************************)
(* SpecPartitions: the activity loop over days.  The clock also advances   *)
(* by whole look-ahead windows, so that a tick can come where the          *)
(* partitions created 48 hours ahead end.                                  *)
(***************************************************************************)
\* the hours the clock advances at once: the look-ahead window, and one more
HourJumps == {aheadHours, aheadHours + 1}

ElapseHours(n) ==
    /\ HourOf(now) + n <= MaxHours
    /\ now' = now + n * hourMinutes
    /\ UNCHANGED <<ctxDone, mainVars, clientVars, storeVars, loopVars, hfVars, lfVars>>

InitPartitions ==
    /\ ctxDone = FALSE
    /\ ClientIdle
    /\ op = "get"
    /\ uuids = <<>>
    /\ ScraperRest
    /\ run = [l \in Loops |-> IF l = "high" THEN "start" ELSE "off"]

NextPartitions ==
    \/ RunFirstTick("high")
    \/ RunReceiveTick("high")
    \/ TickerFire("high")
    \/ Elapse
    \/ \E n \in HourJumps : ElapseHours(n)
    \/ HighTickSteps
    \/ LoopFetchSteps

SpecPartitions == InitPartitions /\ [][NextPartitions]_vars

(***************************************************************************)
(* SpecProvision: SpecPartitions with both fetches of every tick failing,  *)
(* so that a tick is its ensurePartitions call and nothing else.           *)
(***************************************************************************)
FailedFetch == [err |-> TRUE, players |-> <<>>]

NextProvision ==
    \/ RunFirstTick("high")
    \/ RunReceiveTick("high")
    \/ TickerFire("high")
    \/ Elapse
    \/ \E n \in HourJumps : ElapseHours(n)
    \/ \E c \in Callers : ensurePartitionsCall(c)
    \/ \E c \in Callers, ok \in BOOLEAN : ensurePartitionsReturn(c, ok)
    \/ GetOnlineReturn(FailedFetch)
    \/ GetMapPlayersReturn(FailedFetch)
    \/ \E c \in Callers : hfJoin(c)

SpecProvision == InitPartitions /\ [][NextProvision]_vars

(***************************************************************************)
(* SpecShutdown: both loops and main.  main waits at its select for the    *)
(* first message of errCh or for ctx.Done(), then returns: the deferred    *)
(* pool.Close() waits for the store statements in flight, and with main's  *)
(* return the process and every goroutine end where they are.              *)
(***************************************************************************)
\* a store statement of a tick is in flight (it holds a connection of the pool)
StatementInFlight ==
    \/ \E c \in Callers : tpc["high"][c] \in {"provisioning", "insert", "upsert"}
    \/ \E g \in SubScrapes : sub[g] \in {"insert", "upsert"}

\* select, case <-ctx.Done() (or the first message of errCh, which a loop
\* sends only after ctx.Done()): "shutdown complete", main returns
mainSelectDone ==
    /\ proc.pc = "select"
    /\ ctxDone
    /\ proc' = [proc EXCEPT !.pc = "closing"]
    /\ UNCHANGED <<ctxDone, lastTick, clientVars, now, storeVars, loopVars, hfVars,
                   lfVars>>

\* the deferred pool.Close() and cancel() are over: the process exits
mainReturn ==
    /\ proc.pc = "closing"
    /\ ~StatementInFlight
    /\ proc' = [proc EXCEPT !.pc = "exited"]
    /\ UNCHANGED <<ctxDone, lastTick, clientVars, now, storeVars, loopVars, hfVars,
                   lfVars>>

\* the steps of the two loops' goroutines up to the end of their first tick,
\* Run's return included; of the snapshot tick only the server sub-scrape gets
\* through its fetch
GoroutineSteps ==
    \/ \E l \in Loops : RunFirstTick(l)
    \/ \E l \in Loops : RunStop(l)
    \/ HighTickSteps
    \/ LoopFetchSteps
    \/ \E c \in Callers : lfStart(c)
    \/ \E g \in SubScrapes, res \in LoopDetailResults :
          /\ g # "server" => res.err
          /\ subFetchReturn(g, res)
    \/ \E g \in SubScrapes, fault \in 0..1 : subWriteReturn(g, fault)
    \/ \E c \in Callers : lfJoin(c)

NextShutdown ==
    \/ proc.pc # "exited" /\ GoroutineSteps
    \/ proc.pc # "exited" /\ Cancel
    \/ mainSelectDone
    \/ mainReturn

SpecShutdown == InitBoth /\ [][NextShutdown]_vars

(***************************************************************************)
(* SpecStartup: main from its first statement: config.Load, db.Connect,    *)
(* db.Migrate over the embedded migration files, then the goroutines.      *)
(***************************************************************************)
MigrationFiles == 1..MaxMigrations

\* cfg, err := config.Load(); on an error os.Exit(1).  Then ctx, cancel and the
\* signal goroutine.
mainLoad(ok) ==
    /\ proc.pc = "load"
    /\ proc' = [proc EXCEPT !.pc = IF ok THEN "connect" ELSE "exited"]
    /\ UNCHANGED <<ctxDone, lastTick, clientVars, now, storeVars, loopVars, hfVars,
                   lfVars>>

\* pool, err := db.Connect(ctx, cfg.DSN()); on an error os.Exit(1)
mainConnect(ok) ==
    /\ proc.pc = "connect"
    /\ ok => ~ctxDone
    /\ proc' = [proc EXCEPT !.pc = IF ok THEN "migrate" ELSE "exited"]
    /\ UNCHANGED <<ctxDone, lastTick, clientVars, now, storeVars, loopVars, hfVars,
                   lfVars>>

\* mutant of mainMigrate: a migration that failed is logged and passed over
mainMigrateLenient(ok) ==
    /\ proc.pc = "migrate"
    /\ ok => ~ctxDone
    /\ LET file == Len(proc.applied) + 1
       IN  /\ proc' = IF ok
                      THEN [proc EXCEPT !.applied = Append(@, file),
                                        !.pc = IF file = proc.files THEN "launch" ELSE @]
                      ELSE [proc EXCEPT !.pc = "launch"]
           /\ partitions' = IF ok /\ file = 1
                            THEN create_activity_partitions(partitions, now, aheadHours)
                            ELSE partitions
    /\ UNCHANGED <<ctxDone, lastTick, clientVars, now, activity, players,
                   lastProvision, snap, dim, loopVars, hfVars, lfVars>>

\* db.Migrate, one turn of its loop over the files in name order: pool.Exec of
\* the file; an error ends Migrate and main does os.Exit(1); after the last
\* file Migrate returns nil.  The first file is 001_initial.sql, whose last
\* statements create the partitions of the hour and the next 48.
mainMigrate(ok) ==
    /\ proc.pc = "migrate"
    /\ ok => ~ctxDone
    /\ LET file == Len(proc.applied) + 1
       IN  /\ proc' = IF ok
                      THEN [proc EXCEPT !.applied = Append(@, file),
                                        !.pc = IF file = proc.files THEN "launch" ELSE @]
                      ELSE [proc EXCEPT !.pc = "exited"]
           /\ partitions' = IF ok /\ file = 1
                            THEN create_activity_partitions(partitions, now, aheadHours)
                            ELSE partitions
    /\ UNCHANGED <<ctxDone, lastTick, clientVars, now, activity, players,
                   lastProvision, snap, dim, loopVars, hfVars, lfVars>>

\* the client, the health server and the scrapers are created and the
\* goroutines launched; main is at its select
mainLaunch ==
    /\ proc.pc = "launch"
    /\ proc' = [proc EXCEPT !.pc = "select"]
    /\ run' = [l \in Loops |-> "start"]
    /\ UNCHANGED <<ctxDone, lastTick, clientVars, now, storeVars, tickerC, running,
                   tpc, nticks, did, hfVars, lfVars>>

\* the signal goroutine exists once main has made ctx
SignalCancel ==
    /\ proc.pc \notin {"load", "exited"}
    /\ Cancel

InitStartup ==
    /\ ctxDone = FALSE
    /\ ClientIdle
    /\ op = "get"
    /\ uuids = <<>>
    /\ ScraperFresh
    /\ partitions = <<>>
    /\ \E n \in MigrationFiles : proc = [pc |-> "load", files |-> n, applied |-> <<>>]
    /\ run = [l \in Loops |-> "off"]

NextStartup ==
    \/ \E ok \in BOOLEAN : mainLoad(ok)
    \/ \E ok \in BOOLEAN : mainConnect(ok)
    \/ \E ok \in BOOLEAN : mainMigrate(ok)
    \/ mainLaunch
    \/ SignalCancel
    \/ proc.pc # "exited" /\ GoroutineSteps
    \/ mainSelectDone
    \/ mainReturn

SpecStartup == InitStartup /\ [][NextStartup]_vars

(***************************************************************************)
(* Properties of the fetch client (checked under SpecClient).              *)
(***************************************************************************)
\* how the retry policy classes an answer: network errors and 5xx are retryable
RetryableOutcome(o) == o.kind # "resp" \/ o.status >= 500
ClientErrorOutcome(o) == o.kind = "resp" /\ o.status >= 400 /\ o.status < 500
UndecodableOutcome(o) == o.kind = "resp" /\ o.status < 400 /\ ~o.wellFormed
SuccessOutcome(o) == o.kind = "resp" /\ o.status < 400 /\ o.wellFormed

\* the answers received by the doWithRetry call that is running or just ended
Answered == Len(outcomes)
\* that call has returned (to its caller, or its caller has taken the result)
Returned == rpc \in {"done", "idle"} /\ requests > 0

\* C4: a fetch call issues at most 3 requests; after a network error or a 5xx
\* on attempt 1 or 2 the call goes on to another attempt (it is then in the
\* backoff before it, which only cancellation ends early); a success on any
\* attempt, the third after two 5xx included, is what the caller receives;
\* three retryable failures end the call with an error.
C4_RetryBudget ==
    /\ requests <= 3
    /\ Answered <= requests
    /\ \A k \in 1..Answered :
         (k < 3 /\ RetryableOutcome(outcomes[k]))
            => \/ k < Answered
               \/ k < requests
               \/ rpc = "backoff"
               \/ Returned /\ ret.kind = "canceled"
    /\ \A k \in 1..Answered :
         SuccessOutcome(outcomes[k])
            => /\ k = Answered
               /\ Returned
               /\ ret = Nil
               /\ out = lastReply.body
    /\ (Returned /\ ret = Nil) => SuccessOutcome(outcomes[Answered])
    /\ (Answered = 3 /\ \A k \in 1..3 : RetryableOutcome(outcomes[k]))
            => /\ Returned
               /\ ret.kind = "exhausted"

\* C4 witness: two 5xx answers, then a success on the third attempt, returned
C4_Witness ==
    /\ rpc = "done"
    /\ Answered = 3
    /\ outcomes[1].status >= 500
    /\ outcomes[2].status >= 500
    /\ SuccessOutcome(outcomes[3])
    /\ ret = Nil
    /\ out = lastReply.body

\* C5: a 4xx answer, or a non-error answer whose body cannot be decoded, ends
\* the call at that attempt with an error: it is the last answer and the last
\* request of the call.
C5_NonRetryableEnds ==
    \A k \in 1..Answered :
        (ClientErrorOutcome(outcomes[k]) \/ UndecodableOutcome(outcomes[k]))
           => /\ k = Answered
              /\ k = requests
              /\ Returned
              /\ ret # Nil
              /\ ret.kind = IF ClientErrorOutcome(outcomes[k])
                            THEN "client error" ELSE "unmarshal"

\* C5 witness: the third attempt is answered 4xx and the call ends in error
C5_Witness ==
    /\ Answered = 3
    /\ ClientErrorOutcome(outcomes[3])
    /\ rpc = "done"
    /\ ret.kind = "client error"

\* C6: from a backoff wait with the context cancelled, the call's next step
\* is to return the cancellation error: no more waiting, no further request,
\* neither by this call nor after it by the operation it belongs to.
C6_CancelInterruptsBackoff ==
    [][ /\ (rpc = "backoff" /\ ctxDone)
            => /\ rpc' = "done"
               /\ ret' = [kind |-> "canceled"]
               /\ requests' = requests
               /\ httpTotal' = httpTotal
               /\ waited' = waited
        /\ (rpc \in {"done", "idle"} /\ ret = [kind |-> "canceled"])
            => httpTotal' = httpTotal ]_vars

\* C6 witness: a call cancelled in the backoff before its second or third request
C6_Witness ==
    /\ rpc = "done"
    /\ ret = [kind |-> "canceled"]
    /\ requests \in {1, 2}
    /\ ctxDone

\* ceil(n / 100)
CeilDiv100(n) == (n + 99) \div 100

RECURSIVE Flatten(_)
Flatten(ss) == IF ss = <<>> THEN <<>> ELSE Head(ss) \o Flatten(Tail(ss))

\* the k-th consecutive slice of at most 100 ids
Slice100(ids, k) ==
    SubSeq(ids, 100 * (k - 1) + 1, IF 100 * k < Len(ids) THEN 100 * k ELSE Len(ids))

\* C7: every request of batchPost carries the next consecutive slice of at
\* most 100 ids; when every request succeeds there are exactly ceil(n/100) of
\* them and the result is the concatenation of the replies in request order
\* (250 ids: 3 requests; 150 ids: 2 requests of 100 and 50; 0 ids: none).
C7_Batching ==
    op = "batch" =>
        /\ \A k \in 1..Len(sent) :
              /\ sent[k].ids = Slice100(uuids, k)
              /\ Len(sent[k].ids) <= 100
              /\ Len(sent[k].ids) >= 1
        /\ (bpc = "done" /\ clean) =>
              /\ httpTotal = CeilDiv100(Len(uuids))
              /\ Len(sent) = CeilDiv100(Len(uuids))
              /\ bret.err = Nil
              /\ bret.results.items = Flatten(replies)
              /\ Len(replies) = Len(sent)
              /\ (\A k \in 1..Len(replies) : Len(replies[k]) = Len(sent[k].ids))
                    => bret.results.items = [j \in 1..Len(uuids) |-> Detail(uuids[j])]
              /\ Len(uuids) = 250 => httpTotal = 3
              /\ Len(uuids) = 150 =>
                    /\ httpTotal = 2
                    /\ Len(sent[1].ids) = 100
                    /\ Len(sent[2].ids) = 50
              /\ Len(uuids) = 0 => httpTotal = 0

\* C7 witness: 250 ids fetched in 3 successful requests, 250 records returned
C7_Witness ==
    /\ op = "batch"
    /\ bpc = "done"
    /\ clean
    /\ Len(uuids) = 250
    /\ httpTotal = 3
    /\ bret.err = Nil
    /\ Len(bret.results.items) = 250

\* C8: when a chunk's doPost fails, batchPost returns at once with no records
\* and an error carrying that chunk's index range; no later chunk is requested.
C8_ChunkFailureFailsCall ==
    op = "batch" =>
        /\ (rpc = "idle" /\ ret # Nil) => (bpc = "done" /\ bret.err # Nil)
        /\ (bpc = "done" /\ bret.err # Nil) =>
              /\ bret.results = NoValue
              /\ bret.err.kind = "batch"
              /\ bret.err.cause = ret
              /\ bret.err.lo = 100 * (calls - 1)
              /\ bret.err.hi = (IF 100 * calls < Len(uuids) THEN 100 * calls ELSE Len(uuids))
              /\ Len(sent) = calls
              /\ Len(replies) = calls - 1
              /\ sent[calls].ids = SubSeq(uuids, bret.err.lo + 1, bret.err.hi)

\* C8 witness: of 250 ids the first chunk succeeded and the second failed
C8_Witness ==
    /\ op = "batch"
    /\ bpc = "done"
    /\ Len(uuids) = 250
    /\ bret.err # Nil
    /\ bret.err.lo = 100
    /\ bret.err.hi = 200
    /\ Len(replies) = 1
    /\ bret.results = NoValue

(***************************************************************************)
(* Properties of the admission gate and the Run loops (SpecGate, Spec).    *)
(***************************************************************************)
\* work of a tick of loop l that is still in flight: a fetch goroutine or a
\* sub-scrape between its start and its end, a store statement being executed
InFlight(l) ==
    IF l = "high"
    THEN \/ onl.pc = "flying"
         \/ mp.pc = "flying"
         \/ \E c \in Callers : tpc[l][c] \in {"provisioning", "insert", "upsert"}
    ELSE \E g \in SubScrapes : sub[g] # "idle" /\ ~Ended(g)

\* every state: at most one tick of a loop is Running, it holds the gate, a
\* free gate means nothing of the loop is in flight, and a tick that has just
\* entered finds nothing of an earlier tick in flight or unjoined
C1_OneTickState ==
    \A l \in Loops :
        /\ Cardinality({c \in Callers : Running(l, c)}) <= 1
        /\ running[l] <=> \E c \in Callers : Running(l, c)
        /\ ~running[l] => ~InFlight(l)
        /\ (\E c \in Callers : tpc[l][c] = "entered") =>
              /\ ~InFlight(l)
              /\ l = "low" => \A g \in SubScrapes : sub[g] = "idle"

\* every step in which a caller of tick() leaves its resting state: it is one
\* TryLock, which either takes the free gate or, the gate being held, fails in
\* that same step, changing nothing of the tick that holds it
C1_OneTickStep ==
    \A l \in Loops, c \in Callers :
        (tpc[l][c] = "idle" /\ tpc'[l][c] # "idle") =>
            IF running[l]
            THEN /\ tpc'[l][c] = "skipped"
                 /\ running'[l]
                 /\ \A d \in Callers \ {c} : tpc'[l][d] = tpc[l][d]
            ELSE /\ tpc'[l][c] = "entered"
                 /\ running'[l]

\* C1: for each loop separately at most one tick is Running at any time: a
\* tick enters only by a non-blocking TryLock of the loop's gate, a second
\* caller while the gate is held fails immediately without waiting, and no
\* fetch, sub-scrape or store write of an earlier tick of the loop is still in
\* flight when a later tick of the loop enters.
C1_OneTickPerLoop == []C1_OneTickState /\ [][C1_OneTickStep]_vars

\* a second tick of a loop is Running with its work in flight, and another
\* caller has just been denied
C1_Witness ==
    \E l \in Loops :
        /\ nticks[l] = 2
        /\ tpc[l]["run"] = "wait"
        /\ InFlight(l)
        /\ tpc[l]["aux"] = "skipped"

\* C2: a trigger that fires while the loop's previous tick is still Running is
\* dropped: it is never queued (ticker.C never holds a firing made during a
\* tick) and never executed later (Run never starts a tick by receiving such a
\* firing).
C2_TriggerDuringTickDropped ==
    /\ [](\A l \in Loops : tickerC[l] # <<>> => ~tickerC[l][1].duringTick)
    /\ [][\A l \in Loops :
            (tickerC[l] # <<>> /\ tickerC'[l] = <<>>) => ~tickerC[l][1].duringTick]_vars

\* the denied trigger's step, and the return that follows it, leave the store,
\* the fetches and the sub-scrapes as they are
C3_DeniedStep ==
    \A l \in Loops, c \in Callers :
        /\ (tpc[l][c] = "idle" /\ tpc'[l][c] # "idle" /\ running[l]) =>
              /\ tpc'[l][c] = "skipped"
              /\ did'[l][c] = {}
              /\ UNCHANGED <<storeVars, hfVars, lfVars>>
        /\ (tpc[l][c] = "skipped" /\ tpc'[l][c] # "skipped") =>
              /\ tpc'[l][c] = "idle"
              /\ did'[l][c] = {}
              /\ UNCHANGED <<storeVars, hfVars, lfVars>>

\* C3: if a loop's admission gate denies entry for a trigger, that trigger
\* performs no partition provisioning, no outbound fetch and no store write.
C3_DeniedDoesNothing ==
    /\ [](\A l \in Loops, c \in Callers : tpc[l][c] = "skipped" => did[l][c] = {})
    /\ [][C3_DeniedStep]_vars

\* a trigger denied while the tick holding the gate has done its fetch, and
\* the denied call is already over
C3_Witness ==
    \E l \in Loops :
        /\ Running(l, "run")
        /\ "fetch" \in did[l]["run"]
        /\ tpc[l]["aux"] = "skipped"
        /\ did[l]["aux"] = {}
        /\ nticks[l] = 1

(***************************************************************************)
(* Properties of the activity tick (SpecActivity: the store starts empty   *)
(* and the tick is the only one).                                          *)
(***************************************************************************)
\* the online fetch of the tick has returned an error
OnlineFailed == onl.pc = "done" /\ onl.err

\* C9: in an activity tick, if the online-list fetch fails, the tick performs
\* no store write at all (no activity insert, no player dimension upsert),
\* whatever the outcome of the concurrent position fetch: the tick never
\* reaches a store statement, the tables stay as they were, and the step that
\* follows the join ends the tick.
C9_OnlineErrNoWrite ==
    /\ [](OnlineFailed =>
            /\ activity = <<>>
            /\ players = {}
            /\ \A c \in Callers :
                  /\ tpc["high"][c] \notin {"insert", "upsert"}
                  /\ "write" \notin did["high"][c])
    /\ [][\A c \in Callers :
            (OnlineFailed /\ tpc["high"][c] = "wait" /\ tpc'["high"][c] # "wait") =>
                /\ tpc'["high"][c] = "idle"
                /\ ~running'["high"]
                /\ UNCHANGED storeVars]_vars

\* the tick is over after a failed online fetch and a position fetch that
\* returned two entries
C9_Witness ==
    /\ OnlineFailed
    /\ mp.pc = "done"
    /\ ~mp.err
    /\ Len(mp.players) = 2
    /\ nticks["high"] = 1
    /\ tpc["high"]["run"] = "idle"
    /\ ~running["high"]

\* the position feed the tick works with (empty when its fetch failed)
Feed == IF mp.err THEN <<>> ELSE mp.players

\* the tick has both results and is past the join
RowsBuilt ==
    /\ onl.pc = "done"
    /\ ~onl.err
    /\ mp.pc = "done"
    /\ tpc["high"]["run"] # "wait"

\* row r is the activity row of online entry e under the position feed
RowOf(r, e) ==
    LET hits == {j \in 1..Len(Feed) : normalizeUUID(Feed[j].uuid) = normalizeUUID(e.uuid)}
    IN  /\ r.uuid = e.uuid
        /\ r.name = e.name
        /\ r.online = TRUE
        /\ r.visible <=> hits # {}
        /\ IF r.visible
           THEN \E j \in hits :
                   /\ r.x = <<Feed[j].x>>
                   /\ r.y = <<Feed[j].y>>
                   /\ r.z = <<Feed[j].z>>
                   /\ r.yaw = <<Feed[j].yaw>>
                   /\ r.world = <<Feed[j].world>>
           ELSE /\ r.x = <<>>
                /\ r.y = <<>>
                /\ r.z = <<>>
                /\ r.yaw = <<>>
                /\ r.world = <<>>

\* C10: an activity tick writes exactly one activity row per entry of the
\* online list and none for players that appear only in the position feed;
\* each row has is_online = true; a row is visible exactly when the player's
\* normalized identifier equals the normalized identifier of some position
\* entry, and x, y, z, yaw and world are all set when visible and all null
\* when not visible.
C10_ActivityRows ==
    /\ ~RowsBuilt => activity = <<>>
    /\ RowsBuilt =>
          /\ Len(rows) = Len(onl.players)
          /\ \A i \in 1..Len(rows) : RowOf(rows[i], onl.players[i])
          /\ \/ activity = <<>>
             \/ /\ Len(activity) = Len(onl.players)
                /\ \A i \in 1..Len(activity) :
                      /\ RowOf(activity[i], onl.players[i])
                      /\ activity[i].ts = snapshotTS
          /\ tpc["high"]["run"] = "upsert" => activity # <<>>
          /\ players # {} => activity # <<>>

\* online [P1, P2] with only P1 in the position feed, in the other format:
\* two rows written, P1 visible with coordinates, P2 not visible with nulls
C10_Witness ==
    /\ RowsBuilt
    /\ Len(onl.players) = 2
    /\ onl.players[1].uuid = <<"a", "-", "b">>
    /\ onl.players[2].uuid = <<"b", "a">>
    /\ Len(Feed) = 1
    /\ Feed[1].uuid = <<"a", "b">>
    /\ Feed[1].x = 1
    /\ Len(activity) = 2
    /\ activity[1].visible
    /\ activity[1].x = <<1>>
    /\ activity[1].world = <<"w1">>
    /\ ~activity[2].visible
    /\ activity[2].x = <<>>
    /\ activity[2].world = <<>>

(***************************************************************************)
(* Properties of identity normalization (SpecActivity).                    *)
(***************************************************************************)
\* u and v are the same identifier up to separator characters
RECURSIVE SameButSeparators(_, _)
SameButSeparators(u, v) ==
    IF u # <<>> /\ Head(u) = "-" THEN SameButSeparators(Tail(u), v)
    ELSE IF v # <<>> /\ Head(v) = "-" THEN SameButSeparators(u, Tail(v))
    ELSE IF u = <<>> \/ v = <<>> THEN u = v
    ELSE Head(u) = Head(v) /\ SameButSeparators(Tail(u), Tail(v))

\* the identifiers the tick has received from the two sources
SeenUuids ==
    {onl.players[i].uuid : i \in 1..Len(onl.players)}
    \cup {mp.players[j].uuid : j \in 1..Len(mp.players)}

\* C11: identity normalization removes separator characters, so that two
\* identifiers differing only by separators normalize to the same key and
\* join to the same record, whichever source uses which format, and
\* normalization is idempotent.
C11_NormalizationJoins ==
    /\ \A u \in SeenUuids :
          /\ \A k \in 1..Len(normalizeUUID(u)) : normalizeUUID(u)[k] # "-"
          /\ SameButSeparators(u, normalizeUUID(u))
          /\ normalizeUUID(normalizeUUID(u)) = normalizeUUID(u)
    /\ \A u, v \in SeenUuids :
          SameButSeparators(u, v) <=> normalizeUUID(u) = normalizeUUID(v)
    /\ RowsBuilt =>
          \A i \in 1..Len(rows) :
              LET same == {j \in 1..Len(Feed) :
                             SameButSeparators(onl.players[i].uuid, Feed[j].uuid)}
              IN  /\ rows[i].visible <=> same # {}
                  /\ rows[i].visible =>
                        \E j \in same : /\ rows[i].x = <<Feed[j].x>>
                                        /\ rows[i].world = <<Feed[j].world>>

\* the online list names the player without separators, the position feed
\* with them: the row written joins the two
C11_Witness ==
    /\ RowsBuilt
    /\ Len(onl.players) = 1
    /\ onl.players[1].uuid = <<"a", "b">>
    /\ Len(Feed) = 1
    /\ Feed[1].uuid = <<"a", "-", "b">>
    /\ Len(activity) = 1
    /\ activity[1].visible
    /\ activity[1].x = <<Feed[1].x>>

(***************************************************************************)
(* Properties of the snapshot tick (SpecSnapshot, SpecDetails).            *)
(***************************************************************************)
\* a fetch result without error that sub-scrape h can be handed where it is
GoodResult(h) ==
    [err |-> FALSE,
     items |-> IF sub[h] = "detail"
               THEN <<[tag |-> "obj", uuid |-> <<"a", "b">>, name |-> "name"]>>
               ELSE <<>>]

\* while the tick runs the group's context is cancelled by nothing but main's
\* cancel(), and a sub-scrape that has not ended can go on: its fetch can
\* succeed and its store call can succeed, whatever has become of the others
C12_Unhindered ==
    /\ gCancelled => \A g \in SubScrapes : sub[g] = "idle"
    /\ ~ctxDone =>
          \A h \in SubScrapes :
              /\ sub[h] \in {"fetch", "list", "detail"} =>
                    ENABLED subFetchReturn(h, GoodResult(h))
              /\ sub[h] \in {"insert", "upsert"} => ENABLED subWriteReturn(h, 0)

\* the step in which a sub-scrape ends with an error touches neither the
\* contexts nor anything of the other three
C12_FailureStep ==
    \A g \in SubScrapes :
        (sub[g] \notin SubEnds /\ sub'[g] \in SubEnds \ {"done"}) =>
            /\ UNCHANGED <<ctxDone, gCancelled>>
            /\ \A h \in SubScrapes \ {g} :
                  /\ sub'[h] = sub[h]
                  /\ det'[h] = det[h]
                  /\ snap'[h] = snap[h]

\* C12: in a snapshot tick the four sub-scrapes are isolated: the failure of
\* any one of them at any step never cancels the shared tick context and
\* never prevents the other three from fetching and persisting their rows in
\* the same tick.
C12_SubScrapesIsolated == []C12_Unhindered /\ [][C12_FailureStep]_vars

\* the nations sub-scrape has failed a fetch; the other three have ended
\* without error, their rows of the tick persisted
C12_Witness ==
    /\ ~ctxDone
    /\ sub["nations"] = "errFetch"
    /\ \A h \in SubScrapes \ {"nations"} : sub[h] = "done"
    /\ snap["nations"] = <<>>
    /\ dim["nations"] = {}
    /\ Len(snap["server"]) = 1
    /\ Len(snap["towns"]) = 1
    /\ Len(snap["players"]) = 1
    /\ Cardinality(dim["towns"]) = 1
    /\ Cardinality(players) = 1

\* the records of det[g] that extractNameUUID accepts, in order
GoodRecords(g) == SelectSeq(det[g], LAMBDA raw : ~extractNameUUID(raw).err)

\* the dimension table of an entity kind
DimTable(g) == IF g = "players" THEN players ELSE dim[g]

\* the sub-scrape of kind g skips the records that fail extraction and writes
\* the others (told apart by their uuids): no statement of it is rejected,
\* after its snapshot insert the snapshot table holds one row of the tick per
\* good record, and after its upsert the dimension table holds each of them
MalformedSkipped(g) ==
    DistinctKeys(GoodRecords(g)) =>
        /\ sub[g] # "errStatement"
        /\ sub[g] \in {"upsert", "done"} =>
              snap[g] = [k \in 1..Len(GoodRecords(g)) |->
                            [ts |-> lfTS, uuid |-> GoodRecords(g)[k].uuid,
                             name |-> GoodRecords(g)[k].name,
                             data |-> GoodRecords(g)[k]]]
        /\ sub[g] = "done" =>
              \A k \in 1..Len(GoodRecords(g)) :
                  \E r \in DimTable(g) : /\ r.uuid = GoodRecords(g)[k].uuid
                                         /\ r.last_seen = lfTS

\* C13: for each entity kind (towns, nations, players), a detail record that
\* fails identity extraction is skipped without failing the batch: wherever
\* the malformed record sits in its chunk (first, middle or last), all other
\* valid records of that chunk are still written as snapshot rows and
\* dimension rows and the sub-scrape does not fail because of it.
C13_MalformedSkippedEveryKind ==
    \A g \in {"towns", "nations", "players"} : MalformedSkipped(g)

\* what holds of it: the nations and players sub-scrapes do skip them
C13_NationsAndPlayers == MalformedSkipped("nations") /\ MalformedSkipped("players")

\* and so does the towns sub-scrape when no good record follows a malformed one
C13_TownsMalformedLast ==
    (\A k \in 1..Len(det["towns"]) :
        extractNameUUID(det["towns"][k]).err =>
            \A m \in (k + 1)..Len(det["towns"]) : extractNameUUID(det["towns"][m]).err)
    => MalformedSkipped("towns")

(***************************************************************************)
(* Properties of the dimension tables (SpecBoth, Spec).                    *)
(***************************************************************************)
DimKinds == {"towns", "nations", "players"}

\* C14: for every dimension row, last_seen is monotonically non-decreasing
\* over any sequence and interleaving of upserts, including upserts to the
\* player dimension issued by activity ticks and by a snapshot tick that
\* started earlier but writes later.
C14_LastSeenMonotone ==
    [][\A g \in DimKinds :
          \A r \in DimTable(g) :
              \A r2 \in DimTable(g)' : r2.uuid = r.uuid => r2.last_seen >= r.last_seen]_vars

\* C15: a dimension row's first_seen is set when the id is first inserted and
\* is left unchanged by every later upsert of the same id, from either loop;
\* there is never more than one dimension row per (kind, id).
C15_FirstSeenSetOnce ==
    /\ [](\A g \in DimKinds :
            \A r1, r2 \in DimTable(g) : r1.uuid = r2.uuid => r1 = r2)
    /\ [][\A g \in DimKinds :
            /\ \A r \in DimTable(g) :
                  \E r2 \in DimTable(g)' : /\ r2.uuid = r.uuid
                                           /\ r2.first_seen = r.first_seen
            /\ \A r2 \in DimTable(g)' :
                  (\A r \in DimTable(g) : r.uuid # r2.uuid) =>
                      /\ r2.first_seen = r2.last_seen
                      /\ r2.first_seen \in {snapshotTS, lfTS}]_vars

\* a player row inserted by one tick and upserted again by a tick of the
\* other loop with a different timestamp; its first_seen is the first one
C15_Witness ==
    /\ tpc["high"]["run"] = "idle"
    /\ nticks["high"] = 1
    /\ sub["players"] = "done"
    /\ snapshotTS # lfTS
    /\ \E r \in players : r.first_seen # r.last_seen

\* the timestamps the upsert is tried with, and their non-decreasing
\* sequences of one to three
UpsertTimes == {0, coolDownMinutes, 2 * coolDownMinutes}
NonDecreasing ==
    {tss \in UNION {[1..n -> UpsertTimes] : n \in 1..3} :
        \A i, j \in 1..Len(tss) : i <= j => tss[i] <= tss[j]}

\* the upsert of one (uuid, name) applied once per timestamp of tss, in order
RECURSIVE UpsertAt(_, _, _, _)
UpsertAt(table, uuid, name, tss) ==
    IF tss = <<>> THEN table
    ELSE UpsertAt(UpsertRow(table, uuid, name, Head(tss)), uuid, name, Tail(tss))

\* C16: the dimension upsert is idempotent.  Applied N times for the same
\* (id, name) at non-decreasing timestamps to any table the program reaches,
\* it leaves exactly one row of that id, whose last_seen is the latest
\* timestamp and whose first_seen is the earliest one (the first_seen the row
\* had, when the table had the id before), and it leaves the other rows alone;
\* applied once more with the last (id, name, timestamp), and applied twice as
\* the statement of a whole tick, it leaves the table as it was after one
\* application.  One loop's ticks never leave first_seen after last_seen.
C16_UpsertIdempotent ==
    /\ \A e \in OnlineEntries, tss \in NonDecreasing :
          LET after == UpsertAt(players, e.uuid, e.name, tss)
              mine == {r \in after : r.uuid = e.uuid}
              before == {r \in players : r.uuid = e.uuid}
          IN  /\ Cardinality(mine) = 1
              /\ \A r \in mine :
                    /\ r.name = e.name
                    /\ r.last_seen = tss[Len(tss)]
                    /\ r.first_seen = IF before = {} THEN tss[1]
                                      ELSE (CHOOSE b \in before : TRUE).first_seen
              /\ {r \in after : r.uuid # e.uuid} = {r \in players : r.uuid # e.uuid}
              /\ UpsertRow(after, e.uuid, e.name, tss[Len(tss)]) = after
    /\ LET once == UpsertRows(players, rows, snapshotTS)
       IN  UpsertRows(once, rows, snapshotTS) = once
    /\ \A r1, r2 \in players : r1.uuid = r2.uuid => r1 = r2
    /\ \A r \in players : r.first_seen <= r.last_seen

\* two activity ticks at different times have upserted the same player
C16_Witness ==
    /\ nticks["high"] = 2
    /\ tpc["high"]["run"] = "idle"
    /\ "write" \in did["high"]["run"]
    /\ snapshotTS > 0
    /\ \E r \in players : r.first_seen = 0 /\ r.last_seen = snapshotTS

(***************************************************************************)
(* Properties of the tick timestamp (SpecTimed).                           *)
(***************************************************************************)
\* the rows a step appended to a table kept as a sequence
Appended(old, new) == SubSeq(new, Len(old) + 1, Len(new))

\* the activity tick is the one whose store call returns in this step
HighWrites == \E c \in Callers : tpc["high"][c] \in {"insert", "upsert"}
                                 /\ tpc'["high"][c] # tpc["high"][c]

\* C17: every row written during one tick carries the same timestamp, captured
\* once at the start of that tick.  The timestamp of a loop changes only where
\* its tick captures it, before any of the tick's fetches and writes; every
\* row a step of an activity tick writes (activity rows, player upserts) carries
\* snapshotTS, and every row a step of a snapshot tick writes (server, town,
\* nation and player snapshot rows and dimension rows of the four sub-scrapes)
\* carries that tick's timestamp lfTS, whatever the clock reads by then.
C17_StepWritesTickTime ==
    /\ snapshotTS' # snapshotTS =>
          \E c \in Callers : tpc["high"][c] \in {"entered", "provisioning"}
    /\ lfTS' # lfTS => \E c \in Callers : tpc["low"][c] = "entered"
    /\ \A i \in 1..Len(Appended(activity, activity')) :
          Appended(activity, activity')[i].ts = snapshotTS
    /\ \A g \in SubScrapes :
          \A i \in 1..Len(Appended(snap[g], snap'[g])) :
              Appended(snap[g], snap'[g])[i].ts = lfTS
    /\ \A g \in {"towns", "nations"} :
          \A r \in dim'[g] \ dim[g] :
              /\ r.last_seen = lfTS
              /\ (\A o \in dim[g] : o.uuid # r.uuid) => r.first_seen = lfTS
    /\ \A r \in players' \ players :
          LET ts == IF HighWrites THEN snapshotTS ELSE lfTS
          IN  /\ r.last_seen = ts
              /\ (\A o \in players : o.uuid # r.uuid) => r.first_seen = ts
    /\ (activity' # activity \/ players' # players \/ snap' # snap \/ dim' # dim) =>
          (snapshotTS' = snapshotTS /\ lfTS' = lfTS)

C17_OneTimestampPerTick ==
    /\ [][C17_StepWritesTickTime]_vars
    /\ [](\A c \in Callers :
            tpc["high"][c] = "upsert" =>
                \A i \in 1..Len(rows) :
                    activity[Len(activity) - Len(rows) + i].ts = snapshotTS)
    /\ [](nticks["low"] = 1 =>
            /\ \A g \in SubScrapes : \A i \in 1..Len(snap[g]) : snap[g][i].ts = lfTS
            /\ \A g \in {"towns", "nations"} :
                  \A r \in dim[g] : r.first_seen = lfTS /\ r.last_seen = lfTS)

\* a snapshot tick whose sub-scrapes wrote their rows while the clock had
\* moved on from the tick's timestamp
C17_Witness ==
    /\ nticks["low"] = 1
    /\ now # lfTS
    /\ \A g \in SubScrapes : sub[g] = "done" /\ snap[g] # <<>>
    /\ dim["towns"] # {} /\ dim["nations"] # {} /\ players # {}

(***************************************************************************)
(* Properties of the partitions of player_activity (SpecPartitions).       *)
(***************************************************************************)
\* C18: an activity row is inserted only when a partition covering its tick
\* timestamp already exists: in every reachable state, including after
\* provisioning calls that failed, the activity insert of a tick is attempted
\* only for a timestamp inside an existing partition.
C18_InsertOnlyIntoPartition ==
    \A c \in Callers : tpc["high"][c] = "insert" => Covered(partitions, snapshotTS)

\* what does hold: the table never has a row outside its partitions (the store
\* rejects the insert), and after a provisioning call that succeeded within
\* the look-ahead window the tick's timestamp is covered
C18_RowsCovered ==
    /\ \A i \in 1..Len(activity) : Covered(partitions, activity[i].ts)
    /\ \A c \in Callers :
          (/\ tpc["high"][c] = "insert"
           /\ lastProvision.ok
           /\ HourOf(snapshotTS) - HourOf(lastProvision.at) <= aheadHours)
          => Covered(partitions, snapshotTS)

\* a tick of the activity loop is in ensurePartitions, before or at its store call
Provisioning(c) == tpc["high"][c] \in {"entered", "provisioning"}

C19_Step ==
    \A c \in Callers :
        /\ (tpc["high"][c] = "entered" /\ tpc'["high"][c] = "provisioning") =>
              /\ now - lastPartitionCheck >= coolDownMinutes
              /\ lastProvision.ok => now - lastProvision.at >= coolDownMinutes
        /\ (tpc["high"][c] = "entered" /\ now - lastPartitionCheck < coolDownMinutes) =>
              /\ tpc'["high"][c] # "provisioning"
              /\ partitions' = partitions
              /\ lastProvision' = lastProvision
              /\ lastPartitionCheck' = lastPartitionCheck
              /\ "provision" \notin did'["high"][c]
        /\ (tpc["high"][c] = "provisioning" /\ tpc'["high"][c] # "provisioning") =>
              /\ lastProvision'.at = now
              /\ lastProvision'.ok => (/\ lastPartitionCheck' = now
                                       /\ now - lastPartitionCheck >= coolDownMinutes)
              /\ ~lastProvision'.ok => (/\ lastPartitionCheck' = lastPartitionCheck
                                        /\ partitions' = partitions)

Starts(parts) == {parts[k].from : k \in 1..Len(parts)}
PartitionNames(parts) == {parts[k].name : k \in 1..Len(parts)}

NoDuplicate(parts) ==
    /\ Cardinality(Starts(parts)) = Len(parts)
    /\ Cardinality(PartitionNames(parts)) = Len(parts)

\* the target times and look-ahead windows provisioning is tried with
ProvisionTargets == {now, now + hourMinutes}
ProvisionWindows == {1, aheadHours}

\* C20: partition provisioning is idempotent.  Called with any target time and
\* look-ahead window on the partitions the program has reached, it keeps the
\* partitions there were, adds one partition for each hour of the window that
\* had none (the start boundaries become those there were and those of the
\* window) and creates no duplicate; a second call with the
\* same target and window leaves the partitions as after the first.  A
\* partition's name and end are functions of its start boundary.
C20_ProvisioningIdempotent ==
    /\ NoDuplicate(partitions)
    /\ \A k \in 1..Len(partitions) :
          /\ partitions[k].name = PartitionName(HourOf(partitions[k].from))
          /\ partitions[k].from = HourOf(partitions[k].from) * hourMinutes
          /\ partitions[k].to = partitions[k].from + hourMinutes
    /\ \A t \in ProvisionTargets, a \in ProvisionWindows :
          LET once == create_activity_partitions(partitions, t, a)
              window == {(HourOf(t) + i) * hourMinutes : i \in 0..a}
          IN  /\ create_activity_partitions(once, t, a) = once
              /\ NoDuplicate(once)
              /\ SubSeq(once, 1, Len(partitions)) = partitions
              /\ Starts(once) = Starts(partitions) \cup window

\* a second successful provisioning call whose window overlapped the
\* partitions there were: the hour both windows hold exists once
C20_Witness ==
    /\ lastProvision.ok
    /\ HourOf(lastProvision.at) = aheadHours
    /\ Len(partitions) = 2 * aheadHours + 1

(***************************************************************************)
(* Properties of the loops' life (Spec).                                   *)
(***************************************************************************)
\* the call c of tick() of loop l, holding the gate, returns in this step
TickEnds(l, c) == Running(l, c) /\ tpc'[l][c] = "idle"

C21_EndStep ==
    \A l \in Loops :
        /\ \A c \in Callers :
              TickEnds(l, c) => /\ ~running'[l]
                                /\ c = "run" => run'[l] = "select"
                                /\ proc' = proc
        /\ (run[l] # "stopped" /\ run'[l] = "stopped") => ctxDone
        /\ (run[l] = "select" /\ run'[l] = "tick") => tpc'[l]["run"] = "entered"

\* C21: no failure inside a tick stops a loop.  Whatever path a tick ends by
\* (a failed fetch, the failed online list, no rows, a failed store call, every
\* sub-scrape failed, or success), its return releases the gate and leaves Run
\* at its select with the process alive; Run stops only once the context is
\* cancelled; and at the select with a firing waiting, Run can receive it, and
\* receiving it enters a new tick (the gate is free).
C21_FailureNeverStopsLoop ==
    /\ [][C21_EndStep]_vars
    /\ [](\A l \in Loops :
            run[l] = "select" =>
                /\ ~running[l]
                /\ (tickerC[l] # <<>> /\ nticks[l] < MaxTicks) => ENABLED RunReceiveTick(l))

\* the online-list fetch of the first activity tick failed, the context is not
\* cancelled, and the next firing has entered the second tick
C21_Witness ==
    /\ ~ctxDone
    /\ nticks["high"] = 2
    /\ tpc["high"]["run"] = "entered"
    /\ onl.pc = "done" /\ onl.err

(***************************************************************************)
(* Properties of the shutdown (SpecShutdown).                              *)
(***************************************************************************)
\* no tick is running and no fetch is in flight
Quiet ==
    /\ \A l \in Loops, c \in Callers : tpc[l][c] = "idle"
    /\ onl.pc # "flying" /\ mp.pc # "flying"
    /\ \A g \in SubScrapes : sub[g] = "idle"

\* C22: after the process-wide cancellation signal is raised, every in-flight
\* fetch call returns, every running tick finishes, and both loops stop: by
\* the time the process has ended, no fetch is in flight, no tick is running,
\* and both Run calls have returned.
C22_CancelWindsDown ==
    proc.pc = "exited" => (Quiet /\ \A l \in Loops : run[l] = "stopped")

\* the goroutines alone, the process living on, each scheduled again and again
LiveGoroutines ==
    /\ InitBoth
    /\ [][GoroutineSteps \/ Cancel]_vars
    /\ \A l \in Loops : WF_vars(RunFirstTick(l)) /\ WF_vars(RunStop(l))
    /\ WF_vars(HighTickSteps \/ LoopFetchSteps)
    /\ WF_vars(\/ \E c \in Callers : lfStart(c)
               \/ \E g \in SubScrapes, res \in LoopDetailResults :
                     (g # "server" => res.err) /\ subFetchReturn(g, res)
               \/ \E g \in SubScrapes, fault \in 0..1 : subWriteReturn(g, fault)
               \/ \E c \in Callers : lfJoin(c))

\* what does hold: as long as the process lives, a cancellation is followed by
\* the end of every tick and the return of both Run calls
StopsWhileProcessLives ==
    ctxDone ~> (Quiet /\ \A l \in Loops : run[l] = "stopped")

(***************************************************************************)
(* Properties of the startup (SpecStartup).                                *)
(***************************************************************************)
\* main is past config.Load, db.Connect and db.Migrate, all three succeeded
StartupSucceeded ==
    /\ proc.pc \in {"launch", "select", "closing", "exited"}
    /\ Len(proc.applied) = proc.files

\* a loop has started: its Run goroutine exists, or a tick of it has been entered
Started(l) == run[l] # "off" \/ nticks[l] > 0 \/ \E c \in Callers : tpc[l][c] # "idle"

C23_MigrateStep ==
    proc'.applied # proc.applied =>
        /\ proc.pc = "migrate"
        /\ proc'.applied = Append(proc.applied, Len(proc.applied) + 1)
        /\ \A l \in Loops : ~Started(l)

\* C23: neither loop starts before configuration loading, store connection and
\* the migration runner have all succeeded; if one of the three fails the
\* process halts without either loop having entered a tick; and within one run
\* of the process the migration files are executed once each, in order: the
\* files executed are always the first files in their order, each once, one
\* more at each turn of Migrate, and all of them when a loop starts.
C23_StartupBeforeLoops ==
    /\ [](\A l \in Loops : Started(l) => StartupSucceeded)
    /\ []((proc.pc = "exited" /\ Len(proc.applied) < proc.files) =>
             \A l \in Loops : ~Started(l) /\ activity = <<>> /\ players = {})
    /\ [](/\ Len(proc.applied) <= proc.files
          /\ \A i \in 1..Len(proc.applied) : proc.applied[i] = i)
    /\ []((proc.pc \in {"load", "connect"}) => proc.applied = <<>>)
    /\ [][C23_MigrateStep]_vars

\* started with two migration files: both executed, in order, and a loop has
\* entered its first tick
C23_Witness ==
    /\ proc.files = 2
    /\ proc.applied = <<1, 2>>
    /\ proc.pc = "select"
    /\ nticks["high"] = 1 /\ nticks["low"] = 1

C24_RunStep ==
    \A l \in Loops :
        /\ (run[l] = "start" /\ run'[l] # "start") =>
              /\ run'[l] = "tick"
              /\ nticks[l] = 0 /\ nticks'[l] = 1
              /\ tpc'[l]["run"] = "entered"
              /\ tickerC'[l] = tickerC[l]
        /\ (run[l] = "select" /\ run'[l] = "tick") =>
              /\ tickerC[l] # <<>> /\ tickerC'[l] = <<>>
              /\ nticks'[l] = nticks[l] + 1
        /\ nticks'[l] # nticks[l] => (run[l] \in {"start", "select"} /\ run'[l] = "tick")

\* C24: each loop executes one tick immediately when it starts, before waiting
\* for any interval, and afterwards executes a tick on each interval firing.
\* The first thing Run does is enter a tick, whether or not the ticker has
\* fired; Run reaches its select only with that tick done; from the select a
\* tick is entered exactly by receiving a firing from ticker.C, one tick per
\* firing received, and a waiting firing can always be received.
C24_TickAtStartThenPerFiring ==
    /\ [][C24_RunStep]_vars
    /\ [](\A l \in Loops :
            /\ run[l] = "start" => (nticks[l] = 0 /\ ENABLED RunFirstTick(l))
            /\ run[l] \in {"select", "stopped"} => nticks[l] >= 1
            /\ (run[l] = "select" /\ nticks[l] < MaxTicks) =>
                  (tickerC[l] # <<>> <=> ENABLED RunReceiveTick(l)))

\* the snapshot loop in its second tick, entered by receiving a firing
C24_Witness ==
    /\ nticks["low"] = 2
    /\ run["low"] = "tick"
    /\ tpc["low"]["run"] = "entered"
    /\ tickerC["low"] = <<>>

\* a step in which a tick of the activity loop returns with both its writes done
HighTickSucceeds ==
    \E c \in Callers :
        /\ tpc["high"][c] = "upsert" /\ tpc'["high"][c] = "idle"
        /\ ~ctxDone /\ DistinctKeys(rows)
        /\ players' = UpsertRows(players, rows, snapshotTS)

\* a step in which a tick of the snapshot loop returns with every sub-scrape
\* ended without an error
LowTickSucceeds ==
    \E c \in Callers :
        /\ tpc["low"][c] = "wait" /\ tpc'["low"][c] = "idle"
        /\ \A g \in SubScrapes : sub[g] = "done"

\* C25: after each successful tick of a loop the readiness surface holds that
\* tick's timestamp as the loop's latest tick timestamp.  The step that ends
\* a successful tick leaves the tick's timestamp in the health server's field
\* of the loop, and no other step changes the field.
C25_LastTickReported ==
    [][/\ HighTickSucceeds => lastTick'.high = Ptr(snapshotTS)
       /\ LowTickSucceeds => lastTick'.low = Ptr(lfTS)
       /\ lastTick'.high # lastTick.high => HighTickSucceeds
       /\ lastTick'.low # lastTick.low => LowTickSucceeds]_vars

(***************************************************************************)
(* SpecCrowd: the first tick of the activity loop with an online list of   *)
(* one player, of chunkSize players and of one more (MaxCrowd).            *)
(***************************************************************************)
Digits == <<"0", "1", "2", "3", "4", "5", "6", "7", "8", "9">>

\* the uuid of the i-th player of a crowd: the digits of i
CrowdUuid(i) == <<Digits[((i \div 100) % 10) + 1], Digits[((i \div 10) % 10) + 1],
                  Digits[(i % 10) + 1]>>

Crowd(n) == [i \in 1..n |-> [uuid |-> CrowdUuid(i), name |-> "name"]]

CrowdOnlineResults ==
    {[err |-> TRUE, players |-> <<>>]}
    \cup {[err |-> FALSE, players |-> Crowd(n)] : n \in {1, MaxCrowd - 1, MaxCrowd}}

CrowdMapResults ==
    FetchResults({e \in MapEntries : e.uuid = <<"a", "b">> /\ e.x = 1}, 1)

\* The steps of the tick; the player upsert of a crowd is followed to its
\* failure only (UpsertRows folds over the rows, as deep as the list is long).
CrowdTickSteps ==
    \/ \E c \in Callers : ensurePartitionsCall(c)
    \/ \E c \in Callers, ok \in BOOLEAN : ensurePartitionsReturn(c, ok)
    \/ \E c \in Callers : hfJoin(c)
    \/ \E c \in Callers, ok \in BOOLEAN : insertActivityReturn(c, ok)
    \/ \E c \in Callers, ok \in BOOLEAN :
          /\ ok => Len(rows) = 1
          /\ upsertPlayersReturn(c, ok)

NextCrowd ==
    \/ RunFirstTick("high")
    \/ Elapse
    \/ Cancel
    \/ CrowdTickSteps
    \/ \E res \in CrowdOnlineResults : GetOnlineReturn(res)
    \/ \E res \in CrowdMapResults : GetMapPlayersReturn(res)

SpecCrowd == InitActivity /\ [][NextCrowd]_vars

\* the statements a store call in progress issues: insertActivity and
\* upsertPlayers one for all the rows of the tick, the snapshot loop's
\* functions one per chunk
StatementsInProgress ==
    {rows : c \in {d \in Callers : tpc["high"][d] \in {"insert", "upsert"}}}
    \cup UNION {{Statements(g, sub[g], det[g], lfTS)[k].rows :
                    k \in 1..Len(Statements(g, sub[g], det[g], lfTS))} :
                g \in {f \in SubScrapes \ {"server"} : sub[f] \in {"insert", "upsert"}}}

\* C26: every store write statement issued by the ingestors carries a bounded
\* number of rows: at most chunkSize rows per statement, the activity insert
\* and the activity tick's player upsert included.
C26_StatementsBounded == \A st \in StatementsInProgress : Len(st) <= chunkSize

(***************************************************************************)
(* The rows of a sub-scrape that ended without an error (SpecDetails).     *)
(***************************************************************************)
\* the snapshot row of a detail record: the name and the uuid extracted from
\* it, and the record itself as the payload
SnapshotRow(raw, ts) ==
    [ts |-> ts, uuid |-> extractNameUUID(raw).uuid, name |-> extractNameUUID(raw).name,
     data |-> raw]

\* C27: a successful per-kind sub-scrape (towns, nations, players) writes
\* exactly one snapshot row and exactly one dimension upsert per valid detail
\* record, with the identity taken from the detail record and the payload
\* equal to the fetched record unchanged; the set of ids given snapshot rows
\* equals the set of ids given dimension upserts.  (First tick: the tables
\* hold what this sub-scrape wrote.)
C27_OneRowPerValidRecord ==
    \A g \in DimKinds :
        sub[g] = "done" =>
            /\ snap[g] = [k \in 1..Len(GoodRecords(g)) |->
                             SnapshotRow(GoodRecords(g)[k], lfTS)]
            /\ Cardinality(DimTable(g)) = Len(GoodRecords(g))
            /\ {r.uuid : r \in DimTable(g)} = {snap[g][k].uuid : k \in 1..Len(snap[g])}
            /\ \A r \in DimTable(g) :
                  /\ r.first_seen = lfTS /\ r.last_seen = lfTS
                  /\ \E k \in 1..Len(snap[g]) :
                        snap[g][k].uuid = r.uuid /\ snap[g][k].name = r.name

\* the nations sub-scrape ended without an error after three detail records,
\* one of them not valid
C27_Witness ==
    /\ sub["nations"] = "done"
    /\ Len(det["nations"]) = 3
    /\ Len(GoodRecords("nations")) = 2
    /\ Len(snap["nations"]) = 2
    /\ Cardinality(dim["nations"]) = 2

(***************************************************************************)
(* The server sub-scrape (SpecSnapshot).                                   *)
(***************************************************************************)
C28_ServerStep ==
    /\ (sub["server"] = "insert" /\ sub'["server"] = "done") =>
          /\ Len(snap'["server"]) = Len(snap["server"]) + 1
          /\ snap'["server"][Len(snap'["server"])].ts = lfTS
    /\ snap'["server"] # snap["server"] =>
          (sub["server"] = "insert" /\ sub'["server"] = "done")
    /\ (sub["server"] \in {"fetch", "insert"} /\ sub'["server"] # sub["server"]) =>
          /\ dim' = dim
          /\ players' = players
          /\ \A g \in DimKinds : snap'[g] = snap[g]

\* C28: the server sub-scrape writes exactly one server snapshot row in a
\* tick where its fetch and insert succeed, writes no row when the fetch
\* fails, and never writes a dimension row.  (First tick: the table holds
\* what this tick wrote.)
C28_OneServerRow ==
    /\ [][C28_ServerStep]_vars
    /\ [](/\ sub["server"] = "done" => Len(snap["server"]) = 1
          /\ sub["server"] \in {"fetch", "errFetch", "insert", "errStore"} =>
                snap["server"] = <<>>
          /\ sub["server"] # "errStatement")

\* the server row is written while the towns sub-scrape has failed its fetch
C28_Witness ==
    /\ sub["server"] = "done"
    /\ Len(snap["server"]) = 1
    /\ snap["server"][1].ts = lfTS
    /\ sub["towns"] = "errFetch"
    /\ dim["towns"] = {}

(***************************************************************************)
(* The activity tick without the position feed (SpecActivity).             *)
(***************************************************************************)
\* the online fetch of the tick has succeeded and its position fetch failed
OnlyMapFailed == onl.pc = "done" /\ ~onl.err /\ mp.pc = "done" /\ mp.err

\* one row per online player, not visible, without a position
HiddenRows(rs) ==
    /\ Len(rs) = Len(onl.players)
    /\ \A i \in 1..Len(rs) :
          /\ rs[i].uuid = onl.players[i].uuid
          /\ rs[i].name = onl.players[i].name
          /\ rs[i].online /\ ~rs[i].visible
          /\ rs[i].x = Null /\ rs[i].y = Null /\ rs[i].z = Null
          /\ rs[i].yaw = Null /\ rs[i].world = Null

C29_Step ==
    \A c \in Callers :
        OnlyMapFailed =>
            /\ (tpc["high"][c] = "wait" /\ tpc'["high"][c] # "wait" /\ onl.players # <<>>)
                  => (tpc'["high"][c] = "insert" /\ HiddenRows(rows'))
            /\ (tpc["high"][c] = "insert" /\ tpc'["high"][c] = "upsert")
                  => (HiddenRows(SubSeq(activity', Len(activity) + 1, Len(activity')))
                      /\ \A k \in (Len(activity) + 1)..Len(activity') :
                            activity'[k].ts = snapshotTS)
            /\ (tpc["high"][c] = "upsert" /\ players' # players)
                  => \A i \in 1..Len(onl.players) :
                        \E r \in players' : /\ r.uuid = onl.players[i].uuid
                                            /\ r.last_seen = snapshotTS

\* C29: in an activity tick where the online-list fetch succeeds and the
\* position fetch fails, the tick proceeds with an empty position set: it
\* still writes one activity row per online player, every row not visible
\* with all position fields null, and still upserts the player dimension.
\* The join goes on to insertActivity with such rows, insertActivity writes
\* them, and upsertPlayers is called and can succeed as with a position feed.
C29_MapFailureTolerated ==
    /\ [][C29_Step]_vars
    /\ [](\A c \in Callers :
            (OnlyMapFailed /\ ~ctxDone) =>
                /\ tpc["high"][c] = "insert" => ENABLED insertActivityReturn(c, TRUE)
                /\ (tpc["high"][c] = "upsert" /\ DistinctKeys(rows)) =>
                      ENABLED upsertPlayersReturn(c, TRUE))

\* the tick is over with two rows written and the players upserted after the
\* position fetch failed
C29_Witness ==
    /\ OnlyMapFailed
    /\ Len(onl.players) = 2
    /\ tpc["high"]["run"] = "idle"
    /\ Len(activity) = 2
    /\ \A k \in 1..2 : ~activity[k].visible /\ activity[k].x = Null
    /\ Cardinality(players) = 2

(***************************************************************************)
(* A provisioning call that failed (SpecPartitions).                       *)
(***************************************************************************)
C30_Step ==
    \A c \in Callers :
        /\ (tpc["high"][c] = "provisioning" /\ tpc'["high"][c] # "provisioning"
            /\ ~lastProvision'.ok) =>
              /\ tpc'["high"][c] = "wait"
              /\ onl'.pc = "flying" /\ mp'.pc = "flying"
              /\ snapshotTS' = now
              /\ running'["high"]
              /\ run'["high"] = run["high"]
              /\ lastPartitionCheck' = lastPartitionCheck
        /\ (tpc["high"][c] = "entered" /\ tpc'["high"][c] # "entered"
            /\ ~lastProvision.ok) =>
              /\ tpc'["high"][c] = "provisioning"
              /\ "provision" \in did'["high"][c]
        /\ lastPartitionCheck' # lastPartitionCheck =>
              (lastProvision'.ok /\ lastPartitionCheck' = now)

\* C30: when provisioning fails, the failure does not abort the tick or stop
\* the loop and does not start the cool-down: the next ensurePartitions call
\* (on the next tick) executes the provisioning work again, and the cool-down
\* starts only from a successful provisioning.  The tick of a failed store
\* call goes on to its fetches with the loop as it was, and as long as the
\* last store call is a failed one the cool-down is over, so every
\* ensurePartitions call issues the store call.
C30_FailedProvisioningRetried ==
    /\ [][C30_Step]_vars
    /\ [](~lastProvision.ok => now - lastPartitionCheck >= coolDownMinutes)

\* the second tick of the loop issues the store call again, less than a
\* cool-down after the first tick's store call failed
C30_Witness ==
    /\ nticks["high"] = 2
    /\ tpc["high"]["run"] = "provisioning"
    /\ ~lastProvision.ok
    /\ lastProvision.at >= 0
    /\ now - lastProvision.at < coolDownMinutes

(***************************************************************************)
(* The waits of one fetch call (SpecClient).                               *)
(***************************************************************************)
C31_WaitStep ==
    /\ (rpc = "backoff" /\ rpc' = "do") =>
          /\ requests' = requests + 1
          /\ waited' = waited + (IF requests = 1 THEN 1 ELSE 2)
    /\ (waited' # waited /\ waited' # 0) => (rpc = "backoff" /\ rpc' = "do")
    /\ (rpc = "do" /\ requests = maxAttempts) => rpc' # "backoff"

\* C31: within one fetch call there is no wait before attempt 1, the wait
\* before attempt 2 is 1 second and the wait before attempt 3 is 2 seconds
\* (doubling), and there is no wait after the final attempt; a call that fails
\* twice and then succeeds waits 3 seconds in total.
C31_BackoffSchedule ==
    /\ [][C31_WaitStep]_vars
    /\ [](/\ requests <= 1 => waited = 0
          /\ requests = 2 => waited = 1
          /\ requests = 3 => waited = 3
          /\ rpc = "backoff" => requests < maxAttempts
          /\ (Returned /\ ret = Nil /\ Answered = 3) => waited = 3)

\* two retryable failures, then a success: the call has waited 1 + 2 seconds
C31_Witness ==
    /\ rpc = "done"
    /\ Answered = 3
    /\ RetryableOutcome(outcomes[1])
    /\ RetryableOutcome(outcomes[2])
    /\ SuccessOutcome(outcomes[3])
    /\ ret = Nil
    /\ waited = 3

(***************************************************************************)
(* The activity tick with nobody online (SpecActivity).                    *)
(***************************************************************************)
\* the online fetch of the tick has returned a list without an entry
OnlineEmpty == onl.pc = "done" /\ ~onl.err /\ onl.players = <<>>

\* C32: when the online list is empty, the activity tick stops after building
\* the (empty) row set and issues neither the activity insert nor the player
\* dimension upsert: the step that follows the join builds no row and ends
\* the tick, and the tick is never in a store call.
C32_EmptyListNoWrite ==
    /\ [](OnlineEmpty =>
            /\ activity = <<>>
            /\ players = {}
            /\ rows = <<>>
            /\ \A c \in Callers :
                  /\ tpc["high"][c] \in {"wait", "idle"}
                  /\ "write" \notin did["high"][c])
    /\ [][\A c \in Callers :
            (OnlineEmpty /\ tpc["high"][c] = "wait" /\ tpc'["high"][c] # "wait") =>
                /\ rows' = <<>>
                /\ tpc'["high"][c] = "idle"
                /\ ~running'["high"]
                /\ run'["high"] = "select"
                /\ UNCHANGED storeVars]_vars

\* the tick is over with nobody online and a position feed of two entries
C32_Witness ==
    /\ OnlineEmpty
    /\ mp.pc = "done"
    /\ ~mp.err
    /\ Len(mp.players) = 2
    /\ nticks["high"] = 1
    /\ tpc["high"]["run"] = "idle"
    /\ run["high"] = "select"

\* C33: in every reachable state every dimension row satisfies
\* first_seen <= last_seen, under any interleaving of upserts from activity
\* ticks and snapshot ticks whose tick timestamps were captured at different
\* times.
C33_FirstSeenNotAfterLastSeen ==
    \A g \in DimKinds : \A r \in DimTable(g) : r.first_seen <= r.last_seen

(***************************************************************************)
(* SpecChunks: the first tick of the snapshot loop, one sub-scrape getting *)
(* through its fetches with no detail record, with records for one chunk   *)
(* and one more, and for MaxChunks chunks, every statement of its snapshot *)
(* insert failing or not.                                                  *)
(***************************************************************************)
\* the i-th detail record of a long reply
DetailUuid(i) == <<Digits[((i \div 1000) % 10) + 1], Digits[((i \div 100) % 10) + 1],
                   Digits[((i \div 10) % 10) + 1], Digits[(i % 10) + 1]>>

Details(n) == [i \in 1..n |-> [tag |-> "obj", uuid |-> DetailUuid(i), name |-> "name"]]

ChunkedResults ==
    SubResults({Details(n) : n \in {0, chunkSize + 1, (MaxChunks - 1) * chunkSize + 1}})

\* The steps of the tick; the dimension upsert of these lists is followed to
\* the failure of its first statement only (UpsertRows folds over the rows,
\* as deep as the list is long).
NextChunks ==
    \/ RunFirstTick("low")
    \/ \E c \in Callers : lfStart(c)
    \/ \E g \in SubScrapes, res \in ChunkedResults :
          /\ ~res.err => OnlyOneThrough(g)
          /\ subFetchReturn(g, res)
    \/ \E g \in SubScrapes, fault \in 0..MaxChunks :
          /\ sub[g] = "upsert" => fault = 1
          /\ subWriteReturn(g, fault)
    \/ \E c \in Callers : lfJoin(c)

SpecChunks == InitSnapshot /\ [][NextChunks]_vars

\* the steps a per-kind sub-scrape can take from where it is
SubNext(at) ==
    CASE at = "list" -> {"detail", "errFetch"}
      [] at = "detail" -> {"insert", "done", "errFetch"}
      [] at = "insert" -> {"upsert", "errStore", "errStatement"}
      [] at = "upsert" -> {"done", "errStore", "errStatement"}
      [] OTHER -> {"idle"}

\* the snapshot rows of the first k chunks of the detail records of kind g
ChunkRows(g, k) ==
    [i \in 1..Min(k * chunkSize, Len(det[g])) |-> SnapshotRow(det[g][i], lfTS)]

C34_Step ==
    \A g \in DimKinds :
        sub'[g] # sub[g] =>
            /\ sub[g] # "idle" => sub'[g] \in SubNext(sub[g])
            /\ sub[g] # "insert" => snap'[g] = snap[g]
            /\ sub[g] # "upsert" => DimTable(g)' = DimTable(g)
            /\ (sub[g] = "insert" /\ sub'[g] = "upsert") =>
                  snap'[g] = snap[g] \o ChunkRows(g, CeilDiv(Len(det[g]), chunkSize))
            /\ (sub[g] = "insert" /\ sub'[g] \in {"errStore", "errStatement"}) =>
                  \E k \in 0..(CeilDiv(Len(det[g]), chunkSize) - 1) :
                      snap'[g] = snap[g] \o ChunkRows(g, k)

\* C34: within a per-kind sub-scrape the steps run in the order list fetch,
\* detail fetch, snapshot insert, dimension upsert, each only after the
\* previous one succeeded; when a snapshot insert chunk fails, the chunks
\* already written stay persisted (no rollback), no later chunk is written,
\* and the dimension upsert for that kind is not attempted in that tick.
C34_OrderedStepsNoRollback ==
    /\ [][C34_Step]_vars
    /\ [](\A g \in DimKinds :
            /\ sub[g] \in {"list", "detail", "errFetch"} => snap[g] = <<>>
            /\ sub[g] \in {"list", "detail", "errFetch", "insert"} => DimTable(g) = {}
            /\ (sub[g] \in {"errStore", "errStatement"} /\ DimTable(g) = {}
                /\ Len(snap[g]) < Len(det[g])) => Len(snap[g]) % chunkSize = 0)

\* the third statement of the nations insert failed: the rows of the first
\* two chunks are in the table, the others and the dimension rows are not
C34_Witness ==
    /\ sub["nations"] = "errStore"
    /\ Len(det["nations"]) = 2 * chunkSize + 1
    /\ snap["nations"] = ChunkRows("nations", 2)
    /\ Len(snap["nations"]) = 2 * chunkSize
    /\ dim["nations"] = {}

(***************************************************************************)
(* The two writes of an activity tick (SpecActivity).                      *)
(***************************************************************************)
C35_Step ==
    \A c \in Callers :
        /\ (tpc["high"][c] = "insert" /\ tpc'["high"][c] # "insert") =>
              /\ players' = players
              /\ IF activity' = activity
                 THEN tpc'["high"][c] = "idle"
                 ELSE /\ tpc'["high"][c] = "upsert"
                      /\ activity' = activity \o ActivityRows(snapshotTS, rows)
        /\ (tpc["high"][c] # "upsert" /\ tpc'["high"][c] = "upsert") =>
              (tpc["high"][c] = "insert" /\ activity' # activity)
        /\ (tpc["high"][c] = "upsert" /\ tpc'["high"][c] # "upsert") =>
              /\ tpc'["high"][c] = "idle"
              /\ activity' = activity
        /\ players' # players => \E d \in Callers : tpc["high"][d] = "upsert"

\* C35: in an activity tick the player dimension upsert is attempted only
\* after the activity insert succeeded: if the activity insert fails no
\* dimension upsert is issued, and if the dimension upsert fails the activity
\* rows already inserted in that tick remain in the store.
C35_UpsertAfterInsert ==
    /\ [][C35_Step]_vars
    /\ [](\A c \in Callers :
            tpc["high"][c] = "upsert" =>
                (rows # <<>> /\ activity = ActivityRows(snapshotTS, rows)))
    /\ [](players # {} => activity # <<>>)

\* the tick is over, its insert done and its upsert failed: the activity rows
\* are in the store and no player row is
C35_Witness ==
    /\ tpc["high"]["run"] = "idle"
    /\ nticks["high"] = 1
    /\ "write" \in did["high"]["run"]
    /\ Len(activity) = 2
    /\ activity = ActivityRows(snapshotTS, rows)
    /\ players = {}

(***************************************************************************)
(* Run's select after the cancellation (Spec).                             *)
(***************************************************************************)
\* C36: once the process-wide cancellation signal has been raised, neither
\* loop begins another tick: a loop that observes both a pending interval
\* firing and the cancellation stops without running the tick.
C36_NoTickAfterCancel ==
    [][\A l \in Loops :
          (ctxDone /\ run[l] = "select" /\ run'[l] # "select") =>
              (run'[l] = "stopped" /\ nticks'[l] = nticks[l])]_vars

\* what holds of a tick begun after the cancellation: it writes no row and
\* creates no partition
LateTickWritesNothing ==
    [][ctxDone => UNCHANGED <<activity, players, snap, dim, partitions>>]_vars

(***************************************************************************)
(* SpecIdentity: SpecDetails with detail records that are JSON objects     *)
(* without a uuid, or without a uuid and a name.                           *)
(***************************************************************************)
IdentityRecords ==
    {[tag |-> "obj", uuid |-> <<"a", "b">>, name |-> "name"],
     [tag |-> "obj", name |-> "name"],
     [tag |-> "obj"],
     BadRecord}

IdentityResults == SubResults(Lists(IdentityRecords, MaxDetails))

NextIdentity ==
    \/ RunFirstTick("low")
    \/ \E c \in Callers : lfStart(c)
    \/ \E g \in SubScrapes, res \in IdentityResults :
          /\ ~res.err => OnlyOneThrough(g)
          /\ subFetchReturn(g, res)
    \/ \E g \in SubScrapes, fault \in 0..1 : subWriteReturn(g, fault)
    \/ \E c \in Callers : lfJoin(c)

SpecIdentity == InitSnapshot /\ [][NextIdentity]_vars

\* C37: no snapshot row or dimension row is ever written with an empty entity
\* id: a detail record whose identity fields (uuid or name) are absent counts
\* as failing extraction and is skipped, in the same way as a record that is
\* not decodable at all.
C37_NoEmptyIdentity ==
    \A g \in DimKinds :
        /\ \A k \in 1..Len(snap[g]) :
              /\ snap[g][k].uuid # <<>>
              /\ {"uuid", "name"} \subseteq DOMAIN snap[g][k].data
        /\ \A r \in DimTable(g) : r.uuid # <<>>

====
